---- MODULE Spec2Model ----
(***************************************************************************)
(* SmartLog_AI: the audio pipeline (RingBuffer, AudioCapturer) and the     *)
(* resource-adaptive backend selector (HybridSTTEngine).                   *)
(*                                                                         *)
(* The specifications of this module, by component:                        *)
(*   src/src/utils/buffer.py   RingBuffer                                  *)
(*     SpecBuffer      write / read by one caller                          *)
(*     SpecScenario    the calls of the end-to-end scenario                *)
(*     SpecConcurrent  a producer and a consumer thread, loop by loop      *)
(*   src/src/audio/capture.py  AudioCapturer                               *)
(*     SpecCapturer    start / stop / get_chunk and the capture threads    *)
(*     SpecPipeline    the capture threads and get_chunk, with fairness    *)
(*   src/src/ai/stt_engine.py  HybridSTTEngine                             *)
(*     SpecEngine      transcribe / check / final_result / close           *)
(*     SpecSelector    the check routine alone                             *)
(*     SpecConstruct   the constructor and the first calls                 *)
(* A specification leaves the variables of the other components alone.     *)
(***************************************************************************)
EXTENDS Integers, Sequences, FiniteSets, TLC

(***************************************************************************)
(* Bounds of the model.                                                    *)
(***************************************************************************)
\* RingBuffer(size): the capacity the buffer is constructed with.
Size == 3
\* Total number of bytes the writers hand to write() in one behaviour.
MaxWritten == 5

\* The byte values written (mmap memory starts zeroed, so 0 is also the
\* value of a cell never written).
Byte == {0, 1}

VARIABLES
    \* ---- RingBuffer (buffer.py:9-15)
    buf,            \* self.buf: the mmap, a function 0..Size-1 -> byte
    head,           \* self.head
    tail,           \* self.tail
    overwrites,     \* self.overwrites
    size,           \* self.size
    lock,           \* self.lock: 0 when free, else who holds it
    \* ---- what the callers of the RingBuffer observe
    rb_op,          \* the last call: "init", "write", "write_error", "read"
    rb_prev,        \* the call before it
    rb_data,        \* the data argument of the last write
    rb_len,         \* the length argument of the last read
    rb_ret,         \* the bytes the last read returned
    rb_avail,       \* the unread count when the last read was entered
    rb_empty,       \* whether the buffer had no unread byte when the last write was entered
    recent,         \* the last Size bytes accepted by write since the buffer was last drained
    nSince,         \* how many bytes write accepted since the buffer was last drained
    readSince,      \* whether a read returned bytes and left some since then
    nWritten,       \* bytes write has accepted so far (bounds the behaviour)
    nRead,          \* bytes of the buffer the reads have returned so far, padding not counted
    fifo,           \* the bytes accepted by write and neither read nor discarded yet
    rb_real,        \* the bytes of fifo the last read took
    \* ---- one producer thread and one consumer thread inside write and read
    producer,       \* [pc, data, left]: where the thread is in write(data) and the
                    \* bytes its loop has still to store
    consumer,       \* [pc, length, left, data]: where the thread is in read(length),
                    \* the bytes its loop has still to fetch and those it has fetched
    written,        \* all the bytes the writes that returned have stored, in order
    consumed        \* all the bytes the reads that returned have fetched, in order

rbVars == <<buf, head, tail, overwrites, size, lock>>
rbObs == <<rb_op, rb_prev, rb_data, rb_len, rb_ret, rb_avail, rb_empty, recent, nSince,
           readSince, nWritten, nRead, fifo, rb_real, producer, consumer, written, consumed>>

VARIABLES
    \* ---- AudioCapturer (capture.py:23-32)
    running,        \* self._running
    stream,         \* self.stream: 0 for None, else the id of the stream object
    capture_thread, \* self._capture_thread: 0 for None, else the id of the thread
    streams,        \* the stream objects p.open returned: id -> [st, closes]
    threads,        \* the threads start() spawned: id -> [pc, rd]
    terminations,   \* how often self.p.terminate() was called
    frames,         \* frames the device has delivered
    caller_pc,      \* where the caller of start()/stop() is: "idle", "joining"
    chunk,          \* self.chunk
    consumer_pc,    \* where the caller of get_chunk() is: "idle", "reading"
    \* ---- what the caller of the capturer observes
    c_call,         \* the last call: "init", "start", "stop"
    c_raised,       \* whether it raised
    c_alt,          \* the calls so far were start(), stop(), start(), ... and none raised
    nStarts,        \* calls of start() so far
    nStops,         \* calls of stop() so far
    w_raised,       \* whether the last buffer.write of a capture thread raised
    reads_after_stop \* per thread: the device reads it has made or begun since a
                    \* stop() cleared the running flag while it was alive, the
                    \* one in progress at that moment included (-1: no stop()
                    \* yet in its lifetime)

capVars == <<running, stream, capture_thread, streams, threads, terminations,
             frames, caller_pc, chunk, consumer_pc>>
capObs == <<c_call, c_raised, c_alt, nStarts, nStops, w_raised, reads_after_stop>>

VARIABLES
    \* ---- HybridSTTEngine (stt_engine.py:61-87)
    active_engine,          \* "vosk" or "whisper"
    vosk_model,             \* loaded (TRUE) or None (FALSE)
    vosk_recognizer,
    whisper_model,
    whisper_cpp_ctx,
    last_check_time,
    last_switch_time,
    resource_check_counter,
    cpp_configured,         \* WHISPER_CPP_AVAILABLE and self.whisper_cpp_model_path
    now,                    \* time.time()
    \* ---- what the caller of the engine observes
    e_call,                 \* the last call: "init", "transcribe", "check", "close",
                            \* "final_result"
    e_raised,               \* whether it raised
    e_ret,                  \* what the call returned: "text", "" or "none" (nothing)
    e_failed,               \* what raised inside the call's try block: "none",
                            \* "load" (a load) or "backend" (the backend's own call)
    e_fin,                  \* how often the call invoked the recognizer's FinalResult
    sample,                 \* <<cpu, mem>> sampled by the last call, <<>> if it sampled nothing
    e_switch,               \* "to_vosk" / "to_whisper" if the last call changed active_engine
    e_load,                 \* the load of that switch: "ok", "failed", "none"
    chg_last,               \* the time of the last change of active_engine (-1: none)
    chg_prev,               \* the time of the change before it (-1: none)
    force_engine,           \* the force_engine argument the engine was constructed with
    smp_calls,              \* calls of the check routine since it last sampled the
                            \* resources (counted up to CheckEvery)
    smp_time,               \* the time it last sampled them (-1: never)
    e_backend               \* the backend the last call passed a chunk to: "vosk",
                            \* "whisper", or "none"

engVars == <<active_engine, vosk_model, vosk_recognizer, whisper_model,
             whisper_cpp_ctx, last_check_time, last_switch_time,
             resource_check_counter, cpp_configured, now>>
engObs == <<e_call, e_raised, e_ret, e_failed, e_fin, sample, e_switch, e_load,
            chg_last, chg_prev, force_engine, smp_calls, smp_time, e_backend>>

VARIABLES
    \* ---- PowerAwareScheduler (power.py:10-14)
    sched_last_check_time,  \* self.last_check_time of the scheduler
    is_throttled,           \* self.is_throttled
    \* ---- what the caller of the scheduler observes
    t_raised                \* whether the last throttle_check() raised

powVars == <<sched_last_check_time, is_throttled, t_raised>>

VARIABLES
    \* ---- the queue-based AudioCapture (audio.py:20-29)
    ac_running,     \* self.running
    ac_lock,        \* who holds self.lock: "free", "thread" or "caller"
    ac_frames,      \* the number of chunks in the queue self.frames
    ac_thread,      \* where the capture thread is: "none", "open", "top", "lock",
                    \* "read", "put", "done"
    ac_caller,      \* where the thread that calls the methods is: "idle",
                    \* "close_lock", "stop_lock", "joining"
    ac_in_close,    \* the call of stop_capture() in progress was made by close()
    ac_terminated   \* self.p.terminate() has been called

legVars == <<ac_running, ac_lock, ac_frames, ac_thread, ac_caller, ac_in_close,
             ac_terminated>>

vars == <<rbVars, rbObs, capVars, capObs, engVars, engObs, powVars, legVars>>

(***************************************************************************)
(* Helpers on sequences.                                                   *)
(***************************************************************************)
Min(a, b) == IF a < b THEN a ELSE b

\* The last n elements of s (all of s when it has fewer).
LastN(s, n) ==
    LET k == Min(n, Len(s))
    IN  SubSeq(s, Len(s) - k + 1, Len(s))

\* All sequences over S of length at most n.
SeqsUpTo(S, n) == UNION {[1..k -> S] : k \in 0..n}

\* n zero bytes: [0] * n
Zeros(n) == [i \in 1..n |-> 0]

(***************************************************************************)
(* RingBuffer                                                              *)
(***************************************************************************)
\* The fields of a RingBuffer as one value.
RB == [buf |-> buf, head |-> head, tail |-> tail, overwrites |-> overwrites,
       size |-> size]

\* RingBuffer.__init__
RBInit(n) ==
    [buf |-> [i \in 0..(n - 1) |-> 0], head |-> 0, tail |-> 0, overwrites |-> 0,
     size |-> n]

\* available = (self.head - self.tail) % self.size
Available(s) == (s.head - s.tail) % s.size

\* A plausible slip: the overwrite branch does not advance tail.
WriteByte_KeepTail(s, byte) ==
    LET next_head == (s.head + 1) % s.size
        s1 == IF next_head = s.tail
              THEN [s EXCEPT !.overwrites = s.overwrites + 1]
              ELSE s
    IN  [s1 EXCEPT !.buf[s.head] = byte, !.head = next_head]

\* A plausible slip: the byte is stored at next_head instead of head.
WriteByte_StoreAtNext(s, byte) ==
    LET next_head == (s.head + 1) % s.size
        s1 == IF next_head = s.tail
              THEN [s EXCEPT !.tail = (s.tail + 1) % s.size,
                             !.overwrites = s.overwrites + 1]
              ELSE s
    IN  [s1 EXCEPT !.buf[next_head] = byte, !.head = next_head]

\* A plausible slip: the overwrite branch does not count the overwrite.
WriteByte_NoCount(s, byte) ==
    LET next_head == (s.head + 1) % s.size
        s1 == IF next_head = s.tail
              THEN [s EXCEPT !.tail = (s.tail + 1) % s.size]
              ELSE s
    IN  [s1 EXCEPT !.buf[s.head] = byte, !.head = next_head]

\* A plausible slip: the full test compares head, not next_head, with tail.
WriteByte_FullAtHead(s, byte) ==
    LET next_head == (s.head + 1) % s.size
        s1 == IF s.head = s.tail
              THEN [s EXCEPT !.tail = (s.tail + 1) % s.size,
                             !.overwrites = s.overwrites + 1]
              ELSE s
    IN  [s1 EXCEPT !.buf[s.head] = byte, !.head = next_head]

\* One iteration of the loop of write: `for byte in data`.
WriteByte(s, byte) ==
    LET next_head == (s.head + 1) % s.size
        s1 == IF next_head = s.tail
              THEN [s EXCEPT !.tail = (s.tail + 1) % s.size,
                             !.overwrites = s.overwrites + 1]
              ELSE s
    IN  [s1 EXCEPT !.buf[s.head] = byte, !.head = next_head]

\* `for byte in data` (the singleton set makes the buffer after each byte a
\* value before the loop goes on with it).
RECURSIVE WriteLoop(_, _)
WriteLoop(s, data) ==
    IF data = <<>> THEN s
    ELSE CHOOSE r \in {WriteLoop(s1, Tail(data)) : s1 \in {WriteByte(s, Head(data))}} :
             TRUE

\* A plausible slip: the length test comes after the loop, which has already
\* stored the first size bytes when the ValueError is raised.
RBWrite_CheckAfter(s, data) ==
    IF Len(data) > s.size
    THEN [st |-> WriteLoop(s, SubSeq(data, 1, s.size)), raised |-> TRUE,
          locked |-> FALSE]
    ELSE [st |-> WriteLoop(s, data), raised |-> FALSE, locked |-> FALSE]

\* A plausible slip: acquire()/release() instead of `with`, the release being
\* skipped when the ValueError is raised.
RBWrite_HoldsOnRaise(s, data) ==
    IF Len(data) > s.size
    THEN [st |-> s, raised |-> TRUE, locked |-> TRUE]
    ELSE [st |-> WriteLoop(s, data), raised |-> FALSE, locked |-> FALSE]

\* RingBuffer.write, entered with the lock acquired:
\* [st |-> the buffer afterwards, raised |-> ValueError or not,
\*  locked |-> whether the lock is still held when the call is left]
\* (`with self.lock` releases the lock on both ways out).
RBWrite(s, data) ==
    IF Len(data) > s.size
    THEN [st |-> s, raised |-> TRUE, locked |-> FALSE]
    ELSE [st |-> WriteLoop(s, data), raised |-> FALSE, locked |-> FALSE]

\* The loops of read: n times append buf[tail] and advance tail.
RECURSIVE ReadLoop(_, _, _)
ReadLoop(s, n, acc) ==
    IF n = 0 THEN [st |-> s, data |-> acc]
    ELSE ReadLoop([s EXCEPT !.tail = (s.tail + 1) % s.size], n - 1,
                  Append(acc, s.buf[s.tail]))

\* A plausible slip: read skips the older unread bytes and returns the newest.
RBRead_Newest(s, length) ==
    LET available == Available(s)
    IN  IF length > available
        THEN LET r == ReadLoop(s, available, <<>>)
             IN  [st |-> r.st, data |-> r.data \o Zeros(length - available)]
        ELSE ReadLoop([s EXCEPT !.tail = (s.tail + available - length) % s.size],
                      length, <<>>)

\* A plausible slip: a short read returns the bytes without moving tail.
RBRead_KeepTail(s, length) ==
    LET available == Available(s)
    IN  IF length > available
        THEN LET r == ReadLoop(s, available, <<>>)
             IN  [st |-> s, data |-> r.data \o Zeros(length - available)]
        ELSE ReadLoop(s, length, <<>>)

\* A plausible slip: a short read moves tail by the length asked for, not by
\* the bytes it fetched.
RBRead_TailByLength(s, length) ==
    LET available == Available(s)
    IN  IF length > available
        THEN LET r == ReadLoop(s, available, <<>>)
             IN  [st |-> [s EXCEPT !.tail = (s.tail + length) % s.size],
                  data |-> r.data \o Zeros(length - available)]
        ELSE ReadLoop(s, length, <<>>)

\* A plausible slip: a short read is not padded.
RBRead_NoPad(s, length) ==
    LET available == Available(s)
    IN  IF length > available
        THEN ReadLoop(s, available, <<>>)
        ELSE ReadLoop(s, length, <<>>)

\* RingBuffer.read: [st |-> the buffer afterwards, data |-> the bytes returned]
RBRead(s, length) ==
    LET available == Available(s)
    IN  IF length > available
        THEN LET r == ReadLoop(s, available, <<>>)
             IN  [st |-> r.st, data |-> r.data \o Zeros(length - available)]
        ELSE ReadLoop(s, length, <<>>)

\* How often the loops of read run: the bytes of the buffer a read(length)
\* appends before it pads.
RealCount(s, length) ==
    IF length > Available(s) THEN Available(s) ELSE length

\* The unread bytes, oldest first: what a read of Available(s) bytes returns.
Unread(s) == ReadLoop(s, Available(s), <<>>).data

\* RingBuffer(n), before any call.
FreshBuffer(n) ==
    /\ buf = RBInit(n).buf
    /\ head = RBInit(n).head
    /\ tail = RBInit(n).tail
    /\ overwrites = RBInit(n).overwrites
    /\ size = RBInit(n).size
    /\ lock = FALSE
    /\ rb_op = "init"
    /\ rb_prev = "init"
    /\ rb_data = <<>>
    /\ rb_len = 0
    /\ rb_ret = <<>>
    /\ rb_avail = 0
    /\ rb_empty = TRUE
    /\ recent = <<>>
    /\ nSince = 0
    /\ readSince = FALSE
    /\ nWritten = 0
    /\ nRead = 0
    /\ fifo = <<>>
    /\ rb_real = <<>>
    /\ producer = [pc |-> "idle", data |-> <<>>, left |-> <<>>]
    /\ consumer = [pc |-> "idle", length |-> 0, left |-> 0, data |-> <<>>]
    /\ written = <<>>
    /\ consumed = <<>>

BufferInit == FreshBuffer(Size)

\* write(data), from the lock acquired to the way out of `with`: the buffer.
WriteBuffer(data) ==
    LET r == RBWrite(RB, data)
    IN  /\ lock' = r.locked
        /\ buf' = r.st.buf
        /\ head' = r.st.head
        /\ tail' = r.st.tail
        /\ overwrites' = r.st.overwrites
        /\ size' = r.st.size

\* The bytes still to come after write(data): fifo is a queue that drops its
\* oldest byte when it holds size - 1 bytes.
FifoAfterWrite(data) ==
    IF RBWrite(RB, data).raised THEN fifo ELSE LastN(fifo \o data, size - 1)

\* write(data) as its caller sees it, who keeps an account of what was written.
WriteEffects(data) ==
    LET r == RBWrite(RB, data)
    IN  /\ WriteBuffer(data)
        /\ rb_op' = IF r.raised THEN "write_error" ELSE "write"
        /\ rb_prev' = rb_op
        /\ rb_data' = data
        /\ rb_empty' = (Available(RB) = 0)
        /\ recent' = IF r.raised THEN recent ELSE LastN(recent \o data, size)
        /\ nSince' = IF r.raised THEN nSince ELSE nSince + Len(data)
        /\ nWritten' = IF r.raised THEN nWritten ELSE nWritten + Len(data)
        /\ fifo' = FifoAfterWrite(data)
        /\ UNCHANGED <<rb_len, rb_ret, rb_avail, readSince, rb_real, nRead>>
        /\ UNCHANGED <<producer, consumer, written, consumed>>

\* write(data) by a caller that no other thread competes with.
WriteCall(data) ==
    /\ ~lock
    /\ WriteEffects(data)
    /\ UNCHANGED <<capVars, capObs, engVars, engObs, powVars, legVars>>

\* read(length), from the lock acquired to the way out of `with`: the buffer
\* and what the call returns.
ReadBuffer(length) ==
    LET r == RBRead(RB, length)
        k == Min(length, Len(fifo))
    IN  /\ lock' = FALSE
        /\ buf' = r.st.buf
        /\ head' = r.st.head
        /\ tail' = r.st.tail
        /\ overwrites' = r.st.overwrites
        /\ size' = r.st.size
        /\ rb_op' = "read"
        /\ rb_len' = length
        /\ rb_ret' = r.data
        /\ rb_avail' = Available(RB)
        /\ rb_real' = SubSeq(fifo, 1, k)
        /\ fifo' = SubSeq(fifo, k + 1, Len(fifo))
        /\ nRead' = nRead + RealCount(RB, length)

\* read(length) as its caller sees it, who keeps an account of what was written.
ReadEffects(length) ==
    LET drained == Available(RBRead(RB, length).st) = 0
    IN  /\ ReadBuffer(length)
        /\ rb_prev' = rb_op
        /\ recent' = IF drained THEN <<>> ELSE recent
        /\ nSince' = IF drained THEN 0 ELSE nSince
        /\ readSince' = IF drained THEN FALSE ELSE (readSince \/ length > 0)
        /\ UNCHANGED <<rb_data, rb_empty, nWritten>>
        /\ UNCHANGED <<producer, consumer, written, consumed>>

\* read(length) by a caller that no other thread competes with.
ReadCall(length) ==
    /\ ~lock
    /\ ReadEffects(length)
    /\ UNCHANGED <<capVars, capObs, engVars, engObs, powVars, legVars>>

\* A caller's write(data).
Write(data) ==
    /\ nWritten + Len(data) <= MaxWritten
    /\ WriteCall(data)

\* A caller's read(length).
Read(length) ==
    /\ length \in Nat
    /\ ReadCall(length)

BufferNext ==
    \/ \E data \in SeqsUpTo(Byte, Size + 1) : Write(data)
    \/ \E length \in 0..(Size + 1) : Read(length)

(***************************************************************************)
(* RingBuffer: the calls of the end-to-end scenario on RingBuffer(10)      *)
(***************************************************************************)
\* The capacity of the scenario's buffer, and the bytes its writes accept.
ScenarioSize == 10
MaxScenarioWritten == 8

\* b"12345", b"678" and b"45678"
B12345 == <<49, 50, 51, 52, 53>>
B678 == <<54, 55, 56>>
B45678 == <<52, 53, 54, 55, 56>>

ScenarioInit == FreshBuffer(ScenarioSize)

ScenarioWrite(data) ==
    /\ nWritten + Len(data) <= MaxScenarioWritten
    /\ WriteCall(data)

ScenarioRead(length) ==
    /\ length \in Nat
    /\ ReadCall(length)

ScenarioNext ==
    \/ \E data \in {B12345, B678} : ScenarioWrite(data)
    \/ \E length \in {0, 3, 5, ScenarioSize} : ScenarioRead(length)

(***************************************************************************)
(* RingBuffer: one producer thread in write, one consumer thread in read   *)
(***************************************************************************)
\* A plausible slip: the method runs without taking the lock.
Free_Unguarded(l) == TRUE

\* `with self.lock` is entered when no thread holds the lock.
Free(l) == ~l

\* The k bytes of a write, numbered on from the n bytes written before, so
\* that every byte of the stream is told from every other and from padding.
Serial(n, k) == [i \in 1..k |-> n + i]

\* What the observers of the two threads leave alone.
ThreadsFrame ==
    UNCHANGED <<rb_op, rb_prev, rb_data, rb_avail, rb_empty, recent, nSince, readSince>>

\* The producer calls write(data) with k bytes and enters `with self.lock`.
ProducerEnter(k) ==
    /\ producer.pc = "idle"
    /\ nWritten + k <= MaxWritten
    /\ Free(lock)
    /\ lock' = TRUE
    /\ producer' = [pc |-> "check", data |-> Serial(nWritten, k),
                    left |-> Serial(nWritten, k)]
    /\ UNCHANGED <<buf, head, tail, overwrites, size>>
    /\ UNCHANGED <<rb_len, rb_ret, rb_real, nWritten, nRead, fifo, consumer, written, consumed>>
    /\ ThreadsFrame
    /\ UNCHANGED <<capVars, capObs, engVars, engObs, powVars, legVars>>

\* `if len(data) > self.size: raise ValueError` (the lock is released on the
\* way out), else on to the loop.
ProducerCheck ==
    /\ producer.pc = "check"
    /\ IF Len(producer.data) > size
       THEN /\ lock' = FALSE
            /\ producer' = [pc |-> "idle", data |-> producer.data, left |-> <<>>]
       ELSE /\ lock' = lock
            /\ producer' = [producer EXCEPT !.pc = "loop"]
    /\ UNCHANGED <<buf, head, tail, overwrites, size>>
    /\ UNCHANGED <<rb_len, rb_ret, rb_real, nWritten, nRead, fifo, consumer, written, consumed>>
    /\ ThreadsFrame
    /\ UNCHANGED <<capVars, capObs, engVars, engObs, powVars, legVars>>

\* One iteration of `for byte in data`.
ProducerByte ==
    /\ producer.pc = "loop"
    /\ producer.left # <<>>
    /\ LET s == WriteByte(RB, Head(producer.left))
       IN  /\ buf' = s.buf
           /\ head' = s.head
           /\ tail' = s.tail
           /\ overwrites' = s.overwrites
    /\ producer' = [producer EXCEPT !.left = Tail(producer.left)]
    /\ UNCHANGED <<size, lock>>
    /\ UNCHANGED <<rb_len, rb_ret, rb_real, nWritten, nRead, fifo, consumer, written, consumed>>
    /\ ThreadsFrame
    /\ UNCHANGED <<capVars, capObs, engVars, engObs, powVars, legVars>>

\* The loop is over: write leaves `with self.lock` and returns.
ProducerLeave ==
    /\ producer.pc = "loop"
    /\ producer.left = <<>>
    /\ lock' = FALSE
    /\ producer' = [producer EXCEPT !.pc = "idle"]
    /\ written' = written \o producer.data
    /\ nWritten' = nWritten + Len(producer.data)
    /\ fifo' = LastN(fifo \o producer.data, size - 1)
    /\ UNCHANGED <<buf, head, tail, overwrites, size>>
    /\ UNCHANGED <<rb_len, rb_ret, rb_real, nRead, consumer, consumed>>
    /\ ThreadsFrame
    /\ UNCHANGED <<capVars, capObs, engVars, engObs, powVars, legVars>>

\* The consumer calls read(length), enters `with self.lock` and computes
\* available; its loop will fetch min(length, available) bytes.
ConsumerEnter(length) ==
    /\ consumer.pc = "idle"
    /\ Free(lock)
    /\ lock' = TRUE
    /\ consumer' = [pc |-> "loop", length |-> length,
                    left |-> Min(length, Available(RB)), data |-> <<>>]
    /\ UNCHANGED <<buf, head, tail, overwrites, size>>
    /\ UNCHANGED <<rb_len, rb_ret, rb_real, nWritten, nRead, fifo, producer, written, consumed>>
    /\ ThreadsFrame
    /\ UNCHANGED <<capVars, capObs, engVars, engObs, powVars, legVars>>

\* One iteration of the loop of read: data.append(self.buf[self.tail]) and
\* tail advances.
ConsumerByte ==
    /\ consumer.pc = "loop"
    /\ consumer.left > 0
    /\ consumer' = [consumer EXCEPT !.left = consumer.left - 1,
                                    !.data = Append(consumer.data, buf[tail])]
    /\ tail' = (tail + 1) % size
    /\ UNCHANGED <<buf, head, overwrites, size, lock>>
    /\ UNCHANGED <<rb_len, rb_ret, rb_real, nWritten, nRead, fifo, producer, written, consumed>>
    /\ ThreadsFrame
    /\ UNCHANGED <<capVars, capObs, engVars, engObs, powVars, legVars>>

\* The loop is over: read pads what it fetched with zeros up to length,
\* leaves `with self.lock` and returns.
ConsumerLeave ==
    /\ consumer.pc = "loop"
    /\ consumer.left = 0
    /\ lock' = FALSE
    /\ consumer' = [consumer EXCEPT !.pc = "idle"]
    /\ rb_len' = consumer.length
    /\ rb_ret' = consumer.data \o Zeros(consumer.length - Len(consumer.data))
    /\ consumed' = consumed \o consumer.data
    /\ nRead' = nRead + Len(consumer.data)
    /\ LET k == Min(consumer.length, Len(fifo))
       IN  /\ rb_real' = SubSeq(fifo, 1, k)
           /\ fifo' = SubSeq(fifo, k + 1, Len(fifo))
    /\ UNCHANGED <<buf, head, tail, overwrites, size>>
    /\ UNCHANGED <<nWritten, producer, written>>
    /\ ThreadsFrame
    /\ UNCHANGED <<capVars, capObs, engVars, engObs, powVars, legVars>>

ConcurrentNext ==
    \/ \E k \in 1..(Size + 1) : ProducerEnter(k)
    \/ ProducerCheck
    \/ ProducerByte
    \/ ProducerLeave
    \/ \E length \in 1..Size : ConsumerEnter(length)
    \/ ConsumerByte
    \/ ConsumerLeave

(***************************************************************************)
(* RingBuffer: properties                                                  *)
(***************************************************************************)
\* The last two calls were write(rb_data) on a buffer without unread bytes
\* and then read(len(rb_data)).
WriteThenRead ==
    /\ rb_op = "read"
    /\ rb_prev = "write"
    /\ rb_empty
    /\ rb_len = Len(rb_data)

\* C1: round trip. For data shorter than the capacity, written into a buffer
\* with no unread bytes (wherever head and tail stand), write(data) followed
\* by read(len(data)) returns exactly data, in order.
C1_RoundTrip ==
    (WriteThenRead /\ Len(rb_data) < Size) => rb_ret = rb_data

\* C1 witness: a round trip of capacity - 1 bytes whose write started near the
\* end of the array and wrapped around it (0 < tail < len(data) afterwards).
C1_Witness ==
    /\ WriteThenRead
    /\ Len(rb_data) = Size - 1
    /\ 0 < tail /\ tail < Len(rb_data)
    /\ rb_ret = rb_data

\* C2 as stated: with no read in between, the unread content after a sequence
\* of writes is the most recently written capacity bytes (all bytes written
\* when fewer than capacity were written).
C2_RetainsCapacity ==
    ~readSince => Unread(RB) = LastN(recent, Min(nSince, Size))

\* C2 amended: with no read in between, the unread content after a sequence of
\* writes into a drained buffer is the most recently written capacity - 1
\* bytes, in write order, when at least capacity - 1 bytes were written, and
\* all bytes written when fewer were.
C2_RetainsCapacityMinusOne ==
    ~readSince => Unread(RB) = LastN(recent, Min(nSince, Size - 1))

\* C2 witness: writes alone put more than capacity bytes in and old bytes
\* were overwritten.
C2_Witness ==
    /\ rb_op = "write"
    /\ ~readSince
    /\ nSince > Size
    /\ overwrites > 0
    /\ Len(Unread(RB)) = Size - 1

\* C3: a read of more bytes than are unread returns only the unread bytes;
\* its result is as long as the number of bytes that were available.
C3_ShortReadOnlyAvailable ==
    (rb_op = "read" /\ rb_len > rb_avail) => Len(rb_ret) = rb_avail

\* The calls so far were write(b"12345"), write(b"678") and read(5) on a
\* fresh buffer (reads that took nothing aside): the 8 bytes accepted are the
\* two writes', b"678" the later one, and all 8 were unread when the read was
\* entered.
ScenarioDone ==
    /\ size = ScenarioSize
    /\ rb_op = "read"
    /\ rb_prev = "write"
    /\ rb_data = B678
    /\ nWritten = Len(B12345) + Len(B678)
    /\ rb_avail = nWritten
    /\ rb_len = 5

\* C11 as stated: on a fresh RingBuffer of capacity 10, write(b"12345"),
\* write(b"678") and read(5) returns b"45678", the 5 bytes written last.
C11_ScenarioNewest == ScenarioDone => rb_ret = B45678

\* C11 amended: on a fresh RingBuffer of capacity 10, write(b"12345"),
\* write(b"678") and read(5) returns b"12345", the 5 oldest unread bytes in
\* the order they were written; b"678" stays unread.
C11_ScenarioOldest ==
    ScenarioDone => (rb_ret = B12345 /\ Unread(RB) = B678)

\* C11 witness: the scenario has run and the read returned b"12345".
C11_Witness == ScenarioDone /\ rb_ret = B12345 /\ head = 8 /\ tail = 5

\* C14: a write of more than capacity bytes raises and leaves head, tail, the
\* overwrite counter and the stored bytes as they were, with the lock free
\* afterwards; a write of at most capacity bytes does not raise.
C14_OversizeRejected ==
    [][/\ rb_op' = "write_error" =>
            /\ Len(rb_data') > size
            /\ UNCHANGED <<buf, head, tail, overwrites>>
            /\ ~lock'
       /\ rb_op' = "write" => (Len(rb_data') <= size /\ ~lock')]_vars

\* C14 witness: an oversize write was rejected by a buffer holding unread
\* bytes, which are still there.
C14_Witness ==
    /\ rb_op = "write_error"
    /\ Len(rb_data) = size + 1
    /\ Available(RB) > 0
    /\ Unread(RB) = fifo
    /\ ~lock

\* C15: head and tail stay within 0..capacity-1, and the bytes a read returns
\* as real data are (head - tail) mod capacity many: the unread bytes are the
\* caller's queue, a read takes min(length, (head - tail) mod capacity) of them
\* from its front, whatever writes and reads came before.
C15_CursorInvariant ==
    /\ 0 <= head /\ head < size
    /\ 0 <= tail /\ tail < size
    /\ Len(fifo) = (head - tail) % size
    /\ Unread(RB) = fifo
    /\ rb_op = "read" =>
          /\ Len(rb_real) = Min(rb_len, rb_avail)
          /\ SubSeq(rb_ret, 1, Len(rb_real)) = rb_real

\* C15 witness: after old bytes were overwritten, a read of more bytes than
\* were unread took capacity - 1 real bytes across the end of the array.
C15_Witness ==
    /\ rb_op = "read"
    /\ overwrites > 0
    /\ rb_len > rb_avail
    /\ Len(rb_real) = size - 1
    /\ 0 < tail /\ tail < Len(rb_real)

\* The unread bytes the step's write dropped from the caller's queue.
Discarded == Len(fifo) + Len(rb_data') - Len(fifo')

\* C16: the overwrite counter never decreases; a write raises it by exactly
\* the number of unread bytes it discards, and a read leaves it alone.
C16_OverwriteCounter ==
    [][/\ overwrites' >= overwrites
       /\ rb_op' = "read" => overwrites' = overwrites
       /\ rb_op' = "write_error" => overwrites' = overwrites
       /\ rb_op' = "write" => overwrites' - overwrites = Discarded]_vars

\* C16 witness: after a read that left unread bytes, a write as long as the
\* capacity has discarded two unread bytes.
C16_Witness ==
    /\ rb_op = "write"
    /\ readSince
    /\ Len(rb_data) = size
    /\ overwrites >= 2
    /\ Len(fifo) = size - 1

\* C17: once more than capacity bytes in total have been written, so that old
\* bytes were overwritten, read(capacity) returns exactly capacity bytes.
C17_ReadLengthAfterOverflow ==
    (rb_op = "read" /\ rb_len = size /\ nWritten > size /\ overwrites > 0)
        => Len(rb_ret) = size

\* C17 witness: such a read, entered with capacity - 1 unread bytes.
C17_Witness ==
    /\ rb_op = "read"
    /\ rb_len = size
    /\ nWritten > size
    /\ overwrites > 0
    /\ rb_avail = size - 1
    /\ Len(rb_ret) = size

\* C39: byte conservation: the bytes write has accepted are the real bytes the
\* reads returned, plus the overwrite counter, plus the unread count
\* (head - tail) mod capacity.
C39_ByteConservation ==
    nWritten = nRead + overwrites + ((head - tail) % size)

\* C39 witness: all the bytes the bound allows were accepted; some were read,
\* some were overwritten and some are still unread.
C39_Witness ==
    /\ nWritten = MaxWritten
    /\ nRead > 0
    /\ overwrites > 0
    /\ (head - tail) % size > 0

\* The bytes accepted by write that were neither returned by a read nor counted
\* as overwritten.
Outstanding == nWritten - nRead - overwrites

\* C40: there are never more than capacity - 1 unread bytes, and head = tail
\* exactly when there is none; a write of exactly capacity bytes into an empty
\* buffer raises the overwrite counter by 1 and leaves all its bytes but the
\* first unread.
C40_OccupancyBound ==
    /\ [](Outstanding <= size - 1)
    /\ [](Len(Unread(RB)) <= size - 1)
    /\ [](head = tail <=> Outstanding = 0)
    /\ [][(rb_op' = "write" /\ rb_empty' /\ Len(rb_data') = size) =>
              /\ overwrites' = overwrites + 1
              /\ Unread([buf |-> buf', head |-> head', tail |-> tail',
                         overwrites |-> overwrites', size |-> size'])
                     = Tail(rb_data')]_vars

\* C40 witness: a buffer that was written and drained, its cursors away from
\* slot 0, has taken a write of exactly capacity bytes.
C40_Witness ==
    /\ rb_op = "write"
    /\ rb_empty
    /\ Len(rb_data) = size
    /\ nRead > 0
    /\ overwrites = 1
    /\ Unread(RB) = Tail(rb_data)
    /\ head # 0

\* a is b with some of its elements left out (the order kept).
RECURSIVE IsSubSeq(_, _)
IsSubSeq(a, b) ==
    IF a = <<>> THEN TRUE
    ELSE IF b = <<>> THEN FALSE
    ELSE IF Head(a) = Head(b) THEN IsSubSeq(Tail(a), Tail(b))
    ELSE IsSubSeq(a, Tail(b))

\* C24: with one producer thread in write and one consumer thread in read,
\* interleaved in any way, at most one of them is inside `with self.lock`;
\* when neither is, the buffer is what the completed writes and reads make
\* of a queue on which each of them acts at once, and a read returns what
\* such a read returns; the bytes the reads fetched, in the order fetched,
\* are the written stream with bytes left out, none twice, and the bytes
\* left out are the unread ones (the end of the stream) and as many more as
\* the overwrite counter counts.
C24_ConcurrentFifo ==
    /\ ~(producer.pc # "idle" /\ consumer.pc # "idle")
    /\ lock = (producer.pc # "idle" \/ consumer.pc # "idle")
    /\ IsSubSeq(consumed, written)
    /\ \A i, j \in 1..Len(consumed) : i < j => consumed[i] # consumed[j]
    /\ consumer.pc = "idle" =>
           /\ consumer.data = rb_real
           /\ rb_ret = rb_real \o Zeros(rb_len - Len(rb_real))
    /\ ~lock =>
           /\ Unread(RB) = fifo
           /\ Unread(RB) = LastN(written, Available(RB))
           /\ Len(written) = Len(consumed) + overwrites + Available(RB)

\* C24 witness: the reads fetched two bytes that were not written one after
\* the other, the byte between them was overwritten while unread, and a
\* byte is still unread.
C24_Witness ==
    /\ ~lock
    /\ overwrites > 0
    /\ Len(consumed) >= 2
    /\ consumed[2] > consumed[1] + 1
    /\ fifo # <<>>
    /\ consumer.data # <<>>

(***************************************************************************)
(* AudioCapturer                                                           *)
(***************************************************************************)
\* start() is called at most MaxStarts times, stop() at most MaxStops times,
\* and the device delivers at most MaxFrames frames in one behaviour.
MaxStarts == 2
MaxStops == 2
MaxFrames == 2
\* AudioCapturer(chunk=...): the capturers modelled have chunk in 1..MaxChunk
\* (a frame of MaxChunk samples does not fit a buffer of Size bytes).
MaxChunk == 2
\* pyaudio.paInt16: two bytes per sample.
BytesPerSample == 2

Ids == 1..MaxStarts

\* One device read: self.chunk samples of BytesPerSample bytes.
Frame == [i \in 1..(chunk * BytesPerSample) |-> 1]

\* threading.Thread.is_alive()
IsAlive(t) == threads[t].pc \in {"top", "read", "write", "locked"}
AliveThreads == {t \in Ids : IsAlive(t)}

\* AudioCapturer.__init__
CapturerInit ==
    /\ chunk \in 1..MaxChunk
    /\ running = FALSE
    /\ stream = 0
    /\ capture_thread = 0
    /\ streams = [s \in Ids |-> [st |-> "none", closes |-> 0]]
    /\ threads = [t \in Ids |-> [pc |-> "none", rd |-> 0]]
    /\ terminations = 0
    /\ frames = 0
    /\ caller_pc = "idle"
    /\ consumer_pc = "idle"
    /\ c_call = "init"
    /\ c_raised = FALSE
    /\ c_alt = TRUE
    /\ nStarts = 0
    /\ nStops = 0
    /\ w_raised = FALSE
    /\ reads_after_stop = [t \in Ids |-> -1]

\* start(): p.open succeeds; a new stream object and a new thread.
Start ==
    /\ caller_pc = "idle"
    /\ nStarts < MaxStarts
    /\ LET id == nStarts + 1
       IN  /\ streams' = [streams EXCEPT ![id] = [st |-> "open", closes |-> 0]]
           /\ stream' = id
           /\ running' = TRUE
           /\ threads' = [threads EXCEPT ![id] = [pc |-> "top", rd |-> 0]]
           /\ capture_thread' = id
    /\ c_call' = "start"
    /\ c_raised' = FALSE
    /\ c_alt' = (c_alt /\ c_call \in {"init", "stop"})
    /\ nStarts' = nStarts + 1
    /\ UNCHANGED <<terminations, frames, caller_pc, nStops>>
    /\ UNCHANGED <<chunk, consumer_pc, w_raised, reads_after_stop>>
    /\ UNCHANGED <<rbVars, rbObs, engVars, engObs, powVars, legVars>>

\* A start() that sets the running flag before it opens the device.
StartFails_FlagFirst ==
    /\ caller_pc = "idle"
    /\ nStarts < MaxStarts
    /\ running' = TRUE
    /\ c_call' = "start"
    /\ c_raised' = TRUE
    /\ c_alt' = FALSE
    /\ nStarts' = nStarts + 1
    /\ UNCHANGED <<stream, capture_thread, streams, threads, terminations,
                   frames, caller_pc, chunk, consumer_pc>>
    /\ UNCHANGED <<nStops, w_raised, reads_after_stop>>
    /\ UNCHANGED <<rbVars, rbObs, engVars, engObs, powVars, legVars>>

\* start(): p.open raises (the device cannot be opened); nothing is assigned.
StartFails ==
    /\ caller_pc = "idle"
    /\ nStarts < MaxStarts
    /\ c_call' = "start"
    /\ c_raised' = TRUE
    /\ c_alt' = FALSE
    /\ nStarts' = nStarts + 1
    /\ UNCHANGED <<capVars, nStops, w_raised, reads_after_stop>>
    /\ UNCHANGED <<rbVars, rbObs, engVars, engObs, powVars, legVars>>

\* The end of stop(), after the join: stop_stream(), close(), p.terminate().
StopFinish ==
    /\ streams' = IF stream # 0
                  THEN [streams EXCEPT ![stream] =
                           [st |-> "closed", closes |-> streams[stream].closes + 1]]
                  ELSE streams
    /\ terminations' = terminations + 1
    /\ caller_pc' = "idle"
    /\ c_call' = "stop"
    /\ c_raised' = FALSE

\* stop(): the flag is cleared; with a live capture thread the caller joins
\* it, else stop() runs to its end.
Stop ==
    /\ caller_pc = "idle"
    /\ nStops < MaxStops
    /\ running' = FALSE
    /\ nStops' = nStops + 1
    /\ c_alt' = (c_alt /\ c_call = "start")
    /\ IF capture_thread # 0 /\ IsAlive(capture_thread)
       THEN /\ caller_pc' = "joining"
            /\ UNCHANGED <<streams, terminations, c_call, c_raised>>
       ELSE StopFinish
    /\ reads_after_stop' =
           [t \in Ids |->
               IF IsAlive(t) /\ reads_after_stop[t] = -1
               THEN (IF threads[t].pc = "top" THEN 0 ELSE 1)
               ELSE reads_after_stop[t]]
    /\ UNCHANGED <<stream, capture_thread, threads, frames, nStarts>>
    /\ UNCHANGED <<chunk, consumer_pc, w_raised>>
    /\ UNCHANGED <<rbVars, rbObs, engVars, engObs, powVars, legVars>>

\* join(timeout=2.0) returns because the thread has exited.
StopJoined ==
    /\ caller_pc = "joining"
    /\ ~IsAlive(capture_thread)
    /\ StopFinish
    /\ UNCHANGED <<running, stream, capture_thread, threads, frames, c_alt,
                   nStarts, nStops>>
    /\ UNCHANGED <<chunk, consumer_pc, w_raised, reads_after_stop>>
    /\ UNCHANGED <<rbVars, rbObs, engVars, engObs, powVars, legVars>>

\* join() without its timeout: it returns only when the thread has exited.
StopJoinTimeout_NoTimeout ==
    /\ caller_pc = "joining"
    /\ ~IsAlive(capture_thread)
    /\ StopFinish
    /\ UNCHANGED <<running, stream, capture_thread, threads, frames, c_alt,
                   nStarts, nStops>>
    /\ UNCHANGED <<chunk, consumer_pc, w_raised, reads_after_stop>>
    /\ UNCHANGED <<rbVars, rbObs, engVars, engObs, powVars, legVars>>

\* join(timeout=2.0) times out: two seconds have passed and the thread is
\* still alive, wherever it is (inside the device read, as a rule). stop()
\* logs a warning and goes on.
StopJoinTimeout ==
    /\ caller_pc = "joining"
    /\ IsAlive(capture_thread)
    /\ StopFinish
    /\ UNCHANGED <<running, stream, capture_thread, threads, frames, c_alt,
                   nStarts, nStops>>
    /\ UNCHANGED <<chunk, consumer_pc, w_raised, reads_after_stop>>
    /\ UNCHANGED <<rbVars, rbObs, engVars, engObs, powVars, legVars>>

\* _capture_audio: `while self._running`, then the call of self.stream.read.
ThreadTop(t) ==
    /\ threads[t].pc = "top"
    /\ threads' = [threads EXCEPT ![t] =
                      IF running THEN [pc |-> "read", rd |-> stream]
                      ELSE [pc |-> "done", rd |-> 0]]
    /\ reads_after_stop' =
           IF running /\ reads_after_stop[t] \in 0..MaxFrames
           THEN [reads_after_stop EXCEPT ![t] = @ + 1]
           ELSE reads_after_stop
    /\ UNCHANGED <<running, stream, capture_thread, streams, terminations,
                   frames, caller_pc, chunk, consumer_pc>>
    /\ UNCHANGED <<c_call, c_raised, c_alt, nStarts, nStops, w_raised>>
    /\ UNCHANGED <<rbVars, rbObs, engVars, engObs, powVars, legVars>>

\* _capture_audio: the device read returns a frame.
ThreadReadReturns(t) ==
    /\ threads[t].pc = "read"
    /\ frames < MaxFrames
    /\ frames' = frames + 1
    /\ threads' = [threads EXCEPT ![t].pc = "write"]
    /\ UNCHANGED <<running, stream, capture_thread, streams, terminations,
                   caller_pc, chunk, consumer_pc>>
    /\ UNCHANGED <<capObs, rbVars, rbObs, engVars, engObs, powVars, legVars>>

\* _capture_audio: the read of a stream that stop() has closed raises OSError;
\* the handler logs it and the thread ends.
ThreadReadRaises(t) ==
    /\ threads[t].pc = "read"
    /\ streams[threads[t].rd].st = "closed"
    /\ threads' = [threads EXCEPT ![t] = [pc |-> "done", rd |-> 0]]
    /\ UNCHANGED <<running, stream, capture_thread, streams, terminations,
                   frames, caller_pc, chunk, consumer_pc>>
    /\ UNCHANGED <<capObs, rbVars, rbObs, engVars, engObs, powVars, legVars>>

\* _capture_audio: self.buffer.write(in_data) acquires the lock of the buffer
\* (`with self.lock`), waiting while another thread holds it.
ThreadLock(t) ==
    /\ threads[t].pc = "write"
    /\ ~lock
    /\ lock' = TRUE
    /\ threads' = [threads EXCEPT ![t].pc = "locked"]
    /\ UNCHANGED <<buf, head, tail, overwrites, size>>
    /\ UNCHANGED <<running, stream, capture_thread, streams, terminations,
                   frames, caller_pc, chunk, consumer_pc>>
    /\ UNCHANGED <<capObs, rbObs, engVars, engObs, powVars, legVars>>

\* _capture_audio: self.buffer.write(in_data) with the lock held; its
\* exception is logged and the loop goes on.
ThreadWrite(t) ==
    /\ threads[t].pc = "locked"
    /\ WriteBuffer(Frame)
    /\ fifo' = FifoAfterWrite(Frame)
    /\ w_raised' = RBWrite(RB, Frame).raised
    /\ UNCHANGED <<rb_op, rb_prev, rb_data, rb_len, rb_ret, rb_avail, rb_empty,
                   recent, nSince, readSince, nWritten, nRead, rb_real>>
    /\ UNCHANGED <<producer, consumer, written, consumed>>
    /\ threads' = [threads EXCEPT ![t] = [pc |-> "top", rd |-> 0]]
    /\ UNCHANGED <<running, stream, capture_thread, streams, terminations,
                   frames, caller_pc, chunk, consumer_pc>>
    /\ UNCHANGED <<c_call, c_raised, c_alt, nStarts, nStops, reads_after_stop>>
    /\ UNCHANGED <<engVars, engObs, powVars, legVars>>

\* get_chunk(): self.buffer.read(self.chunk) acquires the lock of the buffer,
\* waiting while a capture thread holds it.
GetChunkLock ==
    /\ consumer_pc = "idle"
    /\ ~lock
    /\ lock' = TRUE
    /\ consumer_pc' = "reading"
    /\ UNCHANGED <<buf, head, tail, overwrites, size>>
    /\ UNCHANGED <<running, stream, capture_thread, streams, threads,
                   terminations, frames, caller_pc, chunk>>
    /\ UNCHANGED <<capObs, rbObs, engVars, engObs, powVars, legVars>>

\* get_chunk(): self.buffer.read(self.chunk) with the lock held; read does not
\* raise, so get_chunk returns what it returned.
GetChunk ==
    /\ consumer_pc = "reading"
    /\ ReadBuffer(chunk)
    /\ consumer_pc' = "idle"
    /\ UNCHANGED <<rb_prev, rb_data, rb_empty, recent, nSince, readSince, nWritten>>
    /\ UNCHANGED <<producer, consumer, written, consumed>>
    /\ UNCHANGED <<running, stream, capture_thread, streams, threads,
                   terminations, frames, caller_pc, chunk>>
    /\ UNCHANGED <<capObs, engVars, engObs, powVars, legVars>>

CapturerNext ==
    \/ Start
    \/ StartFails
    \/ Stop
    \/ StopJoined
    \/ StopJoinTimeout
    \/ \E t \in Ids : ThreadTop(t)
    \/ \E t \in Ids : ThreadReadReturns(t)
    \/ \E t \in Ids : ThreadReadRaises(t)
    \/ \E t \in Ids : ThreadLock(t)
    \/ \E t \in Ids : ThreadWrite(t)
    \/ GetChunkLock
    \/ GetChunk

\* The calls and steps between start() and stop().
PipelineNext ==
    \/ Start
    \/ \E t \in Ids : ThreadTop(t)
    \/ \E t \in Ids : ThreadReadReturns(t)
    \/ \E t \in Ids : ThreadLock(t)
    \/ \E t \in Ids : ThreadWrite(t)
    \/ GetChunkLock
    \/ GetChunk

\* The calls of start() and stop() and the steps of the capture threads.
StopNext ==
    \/ Start
    \/ StartFails
    \/ Stop
    \/ StopJoined
    \/ StopJoinTimeout
    \/ \E t \in Ids : ThreadTop(t)
    \/ \E t \in Ids : ThreadReadReturns(t)
    \/ \E t \in Ids : ThreadReadRaises(t)
    \/ \E t \in Ids : ThreadLock(t)
    \/ \E t \in Ids : ThreadWrite(t)

(***************************************************************************)
(* AudioCapturer: properties                                               *)
(***************************************************************************)
\* stop() has returned.
StopReturned == c_call = "stop" /\ caller_pc = "idle"

\* C8: after each stop() of a start(); stop(); start(); stop(); ... sequence
\* the call has not raised, the running flag is false, no capture thread is
\* alive and the device stream is closed.
C8_StoppedStateConsistent ==
    (StopReturned /\ c_alt) =>
        /\ ~c_raised
        /\ ~running
        /\ AliveThreads = {}
        /\ stream # 0 /\ streams[stream].st = "closed"

\* C9: at most one capture thread is alive, whatever start()/stop() calls
\* were made (a start() while running spawns nothing).
C9_SingleCaptureThread == Cardinality(AliveThreads) <= 1

\* C10: no stream object is closed again after it has been closed, however
\* often stop() is called.
C10_ClosedAtMostOnce == \A s \in Ids : streams[s].closes <= 1

\* get_chunk() has returned.
GetChunkReturned == rb_op = "read" /\ consumer_pc = "idle"

\* C12: get_chunk returns the empty bytes object when fewer than chunk bytes
\* are unread, and else exactly the oldest chunk unread bytes.
C12_GetChunk ==
    GetChunkReturned =>
        IF rb_avail < chunk
        THEN rb_ret = <<>>
        ELSE rb_ret = rb_real /\ Len(rb_real) = chunk

\* Who is inside a `with self.lock` block of the buffer.
LockHolders ==
    {t \in Ids : threads[t].pc = "locked"}
        \cup (IF consumer_pc = "reading" THEN {0} ELSE {})

\* The lock is held exactly while one thread is inside write or read.
LockHolderRuns == Cardinality(LockHolders) = (IF lock THEN 1 ELSE 0)

\* C20: whenever the lock of the buffer is held, it is held by one thread
\* that is inside write or read, and that call completes and frees the lock,
\* also a write that raises: no thread waits for the lock for ever because the
\* other never lets go of it.
C20_NoIndefiniteBlocking ==
    /\ []LockHolderRuns
    /\ lock ~> ~lock

\* C20 witness: after a write of a capture thread raised, a capture thread
\* with a frame to write waits for the lock while get_chunk holds it.
C20_Witness ==
    /\ w_raised
    /\ lock
    /\ consumer_pc = "reading"
    /\ \E t \in Ids : threads[t].pc = "write"

\* C25: a chunk returned by get_chunk has the length of one frame written by
\* the capture thread and holds only bytes the capture thread wrote (stated
\* here for the calls that found at least one whole frame unread; that no
\* byte is returned twice is part of C24).
C25_ConsumedExactlyOnce ==
    (GetChunkReturned /\ rb_avail >= Len(Frame)) =>
        /\ Len(rb_ret) = Len(Frame)
        /\ rb_ret = rb_real

\* C31: stop() clears the running flag before anything else, stops and closes
\* the stream and terminates PyAudio only after the join of a live capture
\* thread has returned, and always returns: a stop() that waits for the
\* capture thread stops waiting, also when that thread never leaves the
\* device read.
C31_BoundedStop ==
    /\ [][nStops' # nStops => ~running']_vars
    /\ [](caller_pc = "joining" => ~running)
    /\ [][(streams' # streams \/ terminations' # terminations) =>
              /\ nStarts' # nStarts \/ ~running'
              /\ nStarts' # nStarts \/ caller_pc = "joining"
                    \/ ~(capture_thread # 0 /\ IsAlive(capture_thread))]_vars
    /\ (caller_pc = "joining") ~> StopReturned

\* C31 witness: stop() has returned while the capture thread it waited for is
\* still inside a device read that does not return.
C31_Witness ==
    /\ StopReturned
    /\ capture_thread # 0
    /\ threads[capture_thread].pc = "read"
    /\ frames = MaxFrames
    /\ streams[stream].st = "closed"

\* C32: once stop() has cleared the running flag, a capture thread that was
\* alive at that moment finishes at most the iteration it is in (one device
\* read and one buffer write) and starts no further device read.
C32_CooperativeCancellation ==
    \A t \in Ids : reads_after_stop[t] <= 1

\* No start() of this capturer has opened a stream.
NeverOpened == \A s \in Ids : streams[s].st = "none"

C35_OversizeHaltsCapture ==
    [][\A t \in Ids :
          (/\ threads[t].pc = "locked"
           /\ threads'[t].pc # "locked"
           /\ Len(Frame) > size)
              => threads'[t].pc = "done"]_vars

(***************************************************************************)
(* AudioCapture (the queue-based capture of the first version)             *)
(***************************************************************************)
\* AudioCapture(buffer_size=...): the number of chunks the queue self.frames
\* takes (the default is 4).
buffer_size == 2

\* AudioCapture.__init__
LegacyInit ==
    /\ ac_running = FALSE
    /\ ac_lock = "free"
    /\ ac_frames = 0
    /\ ac_thread = "none"
    /\ ac_caller = "idle"
    /\ ac_in_close = FALSE
    /\ ac_terminated = FALSE

\* start_capture(): sets the flag and spawns the capture thread, or warns
\* that capture is running already.
AcStartCapture ==
    /\ ac_caller = "idle"
    /\ IF ~ac_running
       THEN /\ ac_running' = TRUE
            /\ ac_thread' = "open"
       ELSE UNCHANGED <<ac_running, ac_thread>>
    /\ UNCHANGED <<ac_lock, ac_frames, ac_caller, ac_in_close, ac_terminated>>
    /\ UNCHANGED <<rbVars, rbObs, capVars, capObs, engVars, engObs, powVars>>

\* _capture_audio: self.p.open(...) returns the stream, or raises (the handler
\* logs the error and the thread ends).
AcThreadOpen ==
    /\ ac_thread = "open"
    /\ ac_thread' \in {"top", "done"}
    /\ UNCHANGED <<ac_running, ac_lock, ac_frames, ac_caller, ac_in_close,
                   ac_terminated>>
    /\ UNCHANGED <<rbVars, rbObs, capVars, capObs, engVars, engObs, powVars>>

\* _capture_audio: `while self.running`; when the flag is cleared the thread
\* closes its stream and ends.
AcThreadTop ==
    /\ ac_thread = "top"
    /\ ac_thread' = IF ac_running THEN "lock" ELSE "done"
    /\ UNCHANGED <<ac_running, ac_lock, ac_frames, ac_caller, ac_in_close,
                   ac_terminated>>
    /\ UNCHANGED <<rbVars, rbObs, capVars, capObs, engVars, engObs, powVars>>

\* _capture_audio: `with self.lock` is entered, when the lock is free.
AcThreadLock ==
    /\ ac_thread = "lock"
    /\ ac_lock = "free"
    /\ ac_lock' = "thread"
    /\ ac_thread' = "read"
    /\ UNCHANGED <<ac_running, ac_frames, ac_caller, ac_in_close, ac_terminated>>
    /\ UNCHANGED <<rbVars, rbObs, capVars, capObs, engVars, engObs, powVars>>

\* _capture_audio: self.stream.read returns a chunk, or raises (the thread
\* ends); the `with` block is left either way.
AcThreadRead ==
    /\ ac_thread = "read"
    /\ ac_lock' = "free"
    /\ ac_thread' \in {"put", "done"}
    /\ UNCHANGED <<ac_running, ac_frames, ac_caller, ac_in_close, ac_terminated>>
    /\ UNCHANGED <<rbVars, rbObs, capVars, capObs, engVars, engObs, powVars>>

\* _capture_audio: self.frames.put(data), a blocking put: it waits while the
\* queue is full.
AcThreadPut ==
    /\ ac_thread = "put"
    /\ ac_frames < buffer_size
    /\ ac_frames' = ac_frames + 1
    /\ ac_thread' = "top"
    /\ UNCHANGED <<ac_running, ac_lock, ac_caller, ac_in_close, ac_terminated>>
    /\ UNCHANGED <<rbVars, rbObs, capVars, capObs, engVars, engObs, powVars>>

\* get_audio_data(): frames.get_nowait(), None when the queue is empty.
AcGetAudioData ==
    /\ ac_caller = "idle"
    /\ ac_frames' = IF ac_frames > 0 THEN ac_frames - 1 ELSE 0
    /\ UNCHANGED <<ac_running, ac_lock, ac_thread, ac_caller, ac_in_close,
                   ac_terminated>>
    /\ UNCHANGED <<rbVars, rbObs, capVars, capObs, engVars, engObs, powVars>>

\* stop_capture() is called: `if self.running` leads to `with self.lock`,
\* else to the warning.
AcStopCapture ==
    /\ ac_caller = "idle"
    /\ ac_caller' = IF ac_running THEN "stop_lock" ELSE "idle"
    /\ ac_in_close' = FALSE
    /\ UNCHANGED <<ac_running, ac_lock, ac_frames, ac_thread, ac_terminated>>
    /\ UNCHANGED <<rbVars, rbObs, capVars, capObs, engVars, engObs, powVars>>

\* stop_capture(): `with self.lock: self.running = False` when the lock is
\* free, then the call of capture_thread.join(), which has no timeout.
AcStopLock ==
    /\ ac_caller = "stop_lock"
    /\ ac_lock = "free"
    /\ ac_running' = FALSE
    /\ ac_caller' = "joining"
    /\ UNCHANGED <<ac_lock, ac_frames, ac_thread, ac_in_close, ac_terminated>>
    /\ UNCHANGED <<rbVars, rbObs, capVars, capObs, engVars, engObs, powVars>>

\* stop_capture(): join() returns when the thread has ended; a stop_capture()
\* that close() called returns into close(), which terminates PyAudio and
\* leaves its `with self.lock`.
AcJoined ==
    /\ ac_caller = "joining"
    /\ ac_thread = "done"
    /\ ac_caller' = "idle"
    /\ IF ac_in_close
       THEN /\ ac_terminated' = TRUE
            /\ ac_lock' = "free"
            /\ ac_in_close' = FALSE
       ELSE UNCHANGED <<ac_terminated, ac_lock, ac_in_close>>
    /\ UNCHANGED <<ac_running, ac_frames, ac_thread>>
    /\ UNCHANGED <<rbVars, rbObs, capVars, capObs, engVars, engObs, powVars>>

\* close() is called and comes to its `with self.lock`.
AcClose ==
    /\ ac_caller = "idle"
    /\ ac_caller' = "close_lock"
    /\ UNCHANGED <<ac_running, ac_lock, ac_frames, ac_thread, ac_in_close,
                   ac_terminated>>
    /\ UNCHANGED <<rbVars, rbObs, capVars, capObs, engVars, engObs, powVars>>

\* close(): `with self.lock` is entered, when the lock is free, and
\* stop_capture() is called with the lock held: when capture is running it
\* comes to its own `with self.lock` (threading.Lock is not reentrant); else
\* it warns and close() terminates PyAudio and leaves the `with` block.
AcCloseLock ==
    /\ ac_caller = "close_lock"
    /\ ac_lock = "free"
    /\ IF ac_running
       THEN /\ ac_lock' = "caller"
            /\ ac_caller' = "stop_lock"
            /\ ac_in_close' = TRUE
            /\ UNCHANGED ac_terminated
       ELSE /\ ac_terminated' = TRUE
            /\ ac_caller' = "idle"
            /\ UNCHANGED <<ac_lock, ac_in_close>>
    /\ UNCHANGED <<ac_running, ac_frames, ac_thread>>
    /\ UNCHANGED <<rbVars, rbObs, capVars, capObs, engVars, engObs, powVars>>

LegacyNext ==
    \/ AcStartCapture
    \/ AcThreadOpen
    \/ AcThreadTop
    \/ AcThreadLock
    \/ AcThreadRead
    \/ AcThreadPut
    \/ AcGetAudioData
    \/ AcStopCapture
    \/ AcStopLock
    \/ AcJoined
    \/ AcClose
    \/ AcCloseLock

\* C38: the shutdown of the queue-based AudioCapture does not hang: the
\* caller of close() or stop_capture() never waits for a lock that it holds
\* itself, and never joins a capture thread that is blocked in the put of a
\* full queue which nobody drains (get_audio_data is called by the thread
\* that is waiting in the join).
C38_LegacyShutdownTerminates ==
    /\ ~(ac_caller = "stop_lock" /\ ac_lock = "caller")
    /\ ~(ac_caller = "joining" /\ ac_thread = "put" /\ ac_frames = buffer_size)


(***************************************************************************)
(* HybridSTTEngine                                                         *)
(***************************************************************************)
\* Constructor arguments of the engine the model instantiates (the defaults
\* are check_interval = 5.0 s and cooldown_time = 30.0 s; the tests pass
\* cooldown_time = 0.5). Time is counted in whole seconds.
check_interval == 2
cooldown_time == 4
\* The behaviours end MaxElapsed seconds after the engine was constructed.
MaxElapsed == 5
\* resource_check_counter is kept from growing past MaxCounter (see CallAllowed).
MaxCounter == 11

\* cpu_threshold and memory_threshold (defaults), in percent.
cpu_threshold == 80
memory_threshold == 70
\* The hysteresis margin of the vosk -> whisper rule: `- 15`.
Margin == 15
\* "Only check every 10 calls".
CheckEvery == 10

\* Usage samples are kept in half percents, so that threshold - 15/2 is a value.
Pct(x) == 2 * x

\* psutil samples: just below threshold - 15, exactly threshold - 15,
\* threshold - 15/2, exactly the threshold, and just above the threshold.
CpuSamples ==
    {Pct(cpu_threshold - Margin) - 1, Pct(cpu_threshold - Margin),
     Pct(cpu_threshold) - Margin, Pct(cpu_threshold), Pct(cpu_threshold) + 1}
MemSamples ==
    {Pct(memory_threshold - Margin) - 1, Pct(memory_threshold - Margin),
     Pct(memory_threshold) - Margin, Pct(memory_threshold), Pct(memory_threshold) + 1}

\* time.time() when the engine is constructed: last_check_time and
\* last_switch_time start at 0, far in the past of any real clock.
StartTime == cooldown_time + check_interval
MaxTime == StartTime + MaxElapsed

\* The fields of the engine as one value.
Eng ==
    [active_engine |-> active_engine,
     vosk_model |-> vosk_model,
     vosk_recognizer |-> vosk_recognizer,
     whisper_model |-> whisper_model,
     whisper_cpp_ctx |-> whisper_cpp_ctx,
     last_check_time |-> last_check_time,
     last_switch_time |-> last_switch_time,
     resource_check_counter |-> resource_check_counter]

\* _load_vosk: the possible results, [e |-> engine afterwards, raised |-> ...].
\* VoskModel(...) may raise (nothing assigned), KaldiRecognizer(...) may raise
\* (the model is assigned, the recognizer is not); the exception is re-raised.
LoadVosk(e) ==
    { [e |-> [e EXCEPT !.vosk_model = TRUE, !.vosk_recognizer = TRUE],
       raised |-> FALSE],
      [e |-> e, raised |-> TRUE],
      [e |-> [e EXCEPT !.vosk_model = TRUE], raised |-> TRUE] }

\* The second half of _load_whisper: the original Whisper model.
LoadOriginalWhisper(e) ==
    IF ~e.whisper_model
    THEN { [e |-> [e EXCEPT !.whisper_model = TRUE], raised |-> FALSE],
           [e |-> e, raised |-> TRUE] }
    ELSE { [e |-> e, raised |-> FALSE] }

\* _load_whisper: whisper.cpp first when configured (a failure falls back to
\* the original Whisper), else the original Whisper, whose failure is re-raised.
LoadWhisper(e) ==
    IF cpp_configured
    THEN IF ~e.whisper_cpp_ctx
         THEN { [e |-> [e EXCEPT !.whisper_cpp_ctx = TRUE], raised |-> FALSE] }
              \cup LoadOriginalWhisper(e)
         ELSE { [e |-> e, raised |-> FALSE] }
    ELSE LoadOriginalWhisper(e)

\* _unload_whisper
UnloadWhisper(e) == [e EXCEPT !.whisper_model = FALSE, !.whisper_cpp_ctx = FALSE]

\* A plausible slip: the throttle counts calls and does not look at the clock.
ShouldCheckResources_CounterOnly(e, t) ==
    LET e1 == [e EXCEPT !.resource_check_counter = e.resource_check_counter + 1]
    IN  IF e1.resource_check_counter < CheckEvery
        THEN [e |-> e1, ok |-> FALSE]
        ELSE [e |-> [e1 EXCEPT !.last_check_time = t, !.resource_check_counter = 0],
              ok |-> TRUE]

\* _should_check_resources at time t: [e |-> ..., ok |-> the value returned]
ShouldCheckResources(e, t) ==
    LET e1 == [e EXCEPT !.resource_check_counter = e.resource_check_counter + 1]
    IN  IF e1.resource_check_counter < CheckEvery
        THEN [e |-> e1, ok |-> FALSE]
        ELSE IF t - e1.last_check_time < check_interval
        THEN [e |-> e1, ok |-> FALSE]
        ELSE [e |-> [e1 EXCEPT !.last_check_time = t, !.resource_check_counter = 0],
              ok |-> TRUE]

\* A plausible slip: usage at the threshold already counts as high.
HighUsage_AtThreshold(cpu, mem) ==
    cpu >= Pct(cpu_threshold) \/ mem >= Pct(memory_threshold)

\* cpu_usage > self.cpu_threshold or memory_usage > self.memory_threshold
HighUsage(cpu, mem) == cpu > Pct(cpu_threshold) \/ mem > Pct(memory_threshold)

\* A plausible slip: the margin is left out of the vosk -> whisper rule.
LowUsage_NoMargin(cpu, mem) ==
    cpu < Pct(cpu_threshold) /\ mem < Pct(memory_threshold)

\* cpu_usage < self.cpu_threshold - 15 and memory_usage < self.memory_threshold - 15
LowUsage(cpu, mem) ==
    cpu < Pct(cpu_threshold - Margin) /\ mem < Pct(memory_threshold - Margin)

\* The result of a check that did nothing after its throttle/cooldown test.
NoSwitch(e, smp) ==
    [e |-> e, raised |-> FALSE, sample |-> smp, switch |-> "none", load |-> "none"]

\* The switch decision of _check_resources_and_switch for one sample.
Decide(e, t, cpu, mem) ==
    IF e.active_engine = "whisper" /\ HighUsage(cpu, mem)
    THEN { IF l.raised
           THEN [e |-> l.e, raised |-> TRUE, sample |-> <<cpu, mem>>,
                 switch |-> "to_vosk", load |-> "failed"]
           ELSE [e |-> [UnloadWhisper(l.e) EXCEPT !.last_switch_time = t],
                 raised |-> FALSE, sample |-> <<cpu, mem>>,
                 switch |-> "to_vosk", load |-> "ok"]
           : l \in LoadVosk([e EXCEPT !.active_engine = "vosk"]) }
    ELSE IF e.active_engine = "vosk" /\ LowUsage(cpu, mem)
    THEN { IF l.raised
           THEN [e |-> l.e, raised |-> TRUE, sample |-> <<cpu, mem>>,
                 switch |-> "to_whisper", load |-> "failed"]
           ELSE [e |-> [l.e EXCEPT !.last_switch_time = t],
                 raised |-> FALSE, sample |-> <<cpu, mem>>,
                 switch |-> "to_whisper", load |-> "ok"]
           : l \in LoadWhisper([e EXCEPT !.active_engine = "whisper"]) }
    ELSE { NoSwitch(e, <<cpu, mem>>) }

\* A plausible slip: the check routine does not look at the cooldown.
CheckResourcesAndSwitch_NoCooldown(e, t) ==
    LET sc == ShouldCheckResources(e, t)
    IN  IF ~sc.ok THEN { NoSwitch(sc.e, <<>>) }
        ELSE UNION { Decide(sc.e, t, cpu, mem) : cpu \in CpuSamples, mem \in MemSamples }

\* A plausible slip: a check that is rejected in the cooldown starts the
\* cooldown again.
CheckResourcesAndSwitch_CooldownRestarts(e, t) ==
    LET sc == ShouldCheckResources(e, t)
    IN  IF ~sc.ok THEN { NoSwitch(sc.e, <<>>) }
        ELSE IF t - sc.e.last_switch_time < cooldown_time
        THEN { NoSwitch([sc.e EXCEPT !.last_switch_time = t], <<>>) }
        ELSE UNION { Decide(sc.e, t, cpu, mem) : cpu \in CpuSamples, mem \in MemSamples }

\* _check_resources_and_switch at time t: the possible results.
CheckResourcesAndSwitch(e, t) ==
    LET sc == ShouldCheckResources(e, t)
    IN  IF ~sc.ok THEN { NoSwitch(sc.e, <<>>) }
        ELSE IF t - sc.e.last_switch_time < cooldown_time
        THEN { NoSwitch(sc.e, <<>>) }
        ELSE UNION { Decide(sc.e, t, cpu, mem) : cpu \in CpuSamples, mem \in MemSamples }

\* The backend's own transcription of a chunk (AcceptWaveform and Result or
\* PartialResult, or the transcribe of a Whisper model): a text, an empty
\* text, or an exception.
Recognize(e) ==
    { [e |-> e, ret |-> "text", exc |-> "none"],
      [e |-> e, ret |-> "", exc |-> "none"],
      [e |-> e, ret |-> "none", exc |-> "backend"] }

\* A plausible slip: the exception of the backend is not caught.
Caught_Propagates(o) ==
    [e |-> o.e, ret |-> o.ret, raised |-> (o.exc # "none"), failed |-> o.exc]

\* The try blocks of transcribe: `except Exception` logs and returns "".
Caught(o) ==
    [e |-> o.e, ret |-> IF o.exc # "none" THEN "" ELSE o.ret, raised |-> FALSE,
     failed |-> o.exc]

\* A load inside the try block raised.
LoadRaised(e) == [e |-> e, ret |-> "none", exc |-> "load"]

\* The results S of a branch of transcribe, with the backend b the branch
\* passed the chunk to.
Via(b, S) == { x @@ [backend |-> b] : x \in S }

\* transcribe after the check: delegate to the active engine. (On a
\* whisper.cpp context the call first reads psutil.cpu_percent() in
\* _get_optimal_threads to choose n_threads; that assigns no field.)
Delegate(e) ==
    IF e.active_engine = "vosk"
    THEN IF ~e.vosk_recognizer
         THEN UNION { IF l.raised THEN Via("none", { Caught(LoadRaised(l.e)) })
                      ELSE Via("vosk", { Caught(o) : o \in Recognize(l.e) })
                      : l \in LoadVosk(e) }
         ELSE Via("vosk", { Caught(o) : o \in Recognize(e) })
    ELSE UNION { IF l.raised THEN Via("none", { Caught(LoadRaised(l.e)) })
                 ELSE IF l.e.whisper_cpp_ctx \/ l.e.whisper_model
                 THEN Via("whisper", { Caught(o) : o \in Recognize(l.e) })
                 ELSE Via("none", { [e |-> l.e, ret |-> "", raised |-> FALSE,
                                     failed |-> "none"] })
                 : l \in LoadWhisper(e) }

\* A plausible slip: the chunk is passed to the backend first and the check
\* runs afterwards.
TranscribeResults_DelegateFirst(e, t) ==
    UNION { { [c EXCEPT !.raised = (c.raised \/ d.raised)]
                  @@ [ret |-> d.ret, failed |-> d.failed, backend |-> d.backend]
              : c \in CheckResourcesAndSwitch(d.e, t) }
            : d \in Delegate(e) }

\* transcribe(audio_chunk) at time t: the possible results. An exception of
\* the check is not caught.
TranscribeResults(e, t) ==
    UNION { IF c.raised
            THEN { c @@ [ret |-> "none", failed |-> "none", backend |-> "none"] }
            ELSE { [c EXCEPT !.e = d.e, !.raised = d.raised]
                       @@ [ret |-> d.ret, failed |-> d.failed,
                           backend |-> d.backend]
                   : d \in Delegate(c.e) }
            : c \in CheckResourcesAndSwitch(e, t) }

\* A plausible slip: final_result does not look at active_engine.
FinalResultResults_AnyEngine(e) ==
    IF e.vosk_recognizer
    THEN { [ret |-> "text", fin |-> 1, failed |-> "none"],
           [ret |-> "", fin |-> 1, failed |-> "backend"] }
    ELSE { [ret |-> "", fin |-> 0, failed |-> "none"] }

\* final_result(): the possible results. With vosk active and a recognizer,
\* FinalResult() is called once; its text is returned, or "" when it (or the
\* parsing of its result) raises.
FinalResultResults(e) ==
    IF e.active_engine = "vosk" /\ e.vosk_recognizer
    THEN { [ret |-> "text", fin |-> 1, failed |-> "none"],
           [ret |-> "", fin |-> 1, failed |-> "backend"] }
    ELSE { [ret |-> "", fin |-> 0, failed |-> "none"] }

\* A plausible slip: close forgets the recognizer.
CloseEngine_KeepsRecognizer(e) ==
    [e EXCEPT !.whisper_model = FALSE, !.whisper_cpp_ctx = FALSE,
              !.vosk_model = FALSE]

\* close()
CloseEngine(e) ==
    [UnloadWhisper(e) EXCEPT !.vosk_model = FALSE, !.vosk_recognizer = FALSE]

\* The values of the constructor's force_engine: absent (None), the two
\* backends, and any other string.
ForceEngines == {"none", "vosk", "whisper", "other"}

\* A plausible slip: any force_engine that is given is taken as it is.
InitialBackend_AsGiven(f) == IF f # "none" THEN f ELSE "vosk"

\* `if force_engine and force_engine in ["vosk", "whisper"]` ... else "vosk"
InitialBackend(f) == IF f \in {"vosk", "whisper"} THEN f ELSE "vosk"

\* The fields of the engine when __init__ reaches _initialize_current_engine.
BlankEngine(f) ==
    [active_engine |-> InitialBackend(f),
     vosk_model |-> FALSE, vosk_recognizer |-> FALSE,
     whisper_model |-> FALSE, whisper_cpp_ctx |-> FALSE,
     last_check_time |-> 0, last_switch_time |-> 0,
     resource_check_counter |-> 0]

\* A plausible slip: the constructor loads the light backend in any case.
InitializeCurrentEngine_AlwaysVosk(e) ==
    UNION { IF l.raised THEN {l}
            ELSE IF e.active_engine = "whisper" THEN LoadWhisper(l.e) ELSE {l}
            : l \in LoadVosk(e) }

\* _initialize_current_engine: loads the active backend when it is not loaded.
InitializeCurrentEngine(e) ==
    IF e.active_engine = "vosk" /\ ~e.vosk_recognizer
    THEN LoadVosk(e)
    ELSE IF e.active_engine = "whisper" /\ ~e.whisper_model /\ ~e.whisper_cpp_ctx
    THEN LoadWhisper(e)
    ELSE { [e |-> e, raised |-> FALSE] }

\* __init__(force_engine = f): the possible results (a failed load makes the
\* constructor raise).
Construct(f) == InitializeCurrentEngine(BlankEngine(f))

\* The engines a constructor that returned can leave behind.
InitialEngines ==
    { l.e : l \in { x \in UNION { Construct(f) : f \in ForceEngines } : ~x.raised } }

\* The caller has chosen the arguments of the constructor and not called it.
Unconstructed ==
    /\ cpp_configured \in BOOLEAN
    /\ now = StartTime
    /\ force_engine \in ForceEngines
    /\ active_engine = "vosk"
    /\ vosk_model = FALSE
    /\ vosk_recognizer = FALSE
    /\ whisper_model = FALSE
    /\ whisper_cpp_ctx = FALSE
    /\ last_check_time = 0
    /\ last_switch_time = 0
    /\ resource_check_counter = 0
    /\ e_call = "new"
    /\ e_raised = FALSE
    /\ e_ret = "none"
    /\ e_failed = "none"
    /\ e_fin = 0
    /\ sample = <<>>
    /\ e_switch = "none"
    /\ e_load = "none"
    /\ chg_last = -1
    /\ chg_prev = -1
    /\ smp_calls = 0
    /\ smp_time = -1
    /\ e_backend = "none"

\* The caller has an engine: the constructor was called and returned.
Constructed == e_call # "new" /\ ~(e_call = "init" /\ e_raised)

\* The engine fields after a call.
EngineBecomes(e) ==
    /\ active_engine' = e.active_engine
    /\ vosk_model' = e.vosk_model
    /\ vosk_recognizer' = e.vosk_recognizer
    /\ whisper_model' = e.whisper_model
    /\ whisper_cpp_ctx' = e.whisper_cpp_ctx
    /\ last_check_time' = e.last_check_time
    /\ last_switch_time' = e.last_switch_time
    /\ resource_check_counter' = e.resource_check_counter

\* The caller's record of a call that ran the check.
Observed(call, r) ==
    /\ e_call' = call
    /\ e_raised' = r.raised
    /\ e_ret' = r.ret
    /\ e_failed' = r.failed
    /\ e_fin' = 0
    /\ sample' = r.sample
    /\ e_switch' = r.switch
    /\ e_load' = r.load
    /\ chg_last' = IF r.e.active_engine # active_engine THEN now ELSE chg_last
    /\ chg_prev' = IF r.e.active_engine # active_engine THEN chg_last ELSE chg_prev
    /\ smp_calls' = IF call \notin {"transcribe", "check"} THEN smp_calls
                    ELSE IF r.sample # <<>> THEN 0
                    ELSE Min(smp_calls + 1, CheckEvery)
    /\ smp_time' = IF r.sample # <<>> THEN now ELSE smp_time
    /\ e_backend' = r.backend
    /\ UNCHANGED force_engine

EngineInit ==
    /\ cpp_configured \in BOOLEAN
    /\ now = StartTime
    /\ \E e \in InitialEngines :
          /\ active_engine = e.active_engine
          /\ vosk_model = e.vosk_model
          /\ vosk_recognizer = e.vosk_recognizer
          /\ whisper_model = e.whisper_model
          /\ whisper_cpp_ctx = e.whisper_cpp_ctx
          /\ last_check_time = e.last_check_time
          /\ last_switch_time = e.last_switch_time
          /\ resource_check_counter = e.resource_check_counter
          /\ force_engine = e.active_engine
    /\ e_call = "init"
    /\ e_raised = FALSE
    /\ e_ret = "none"
    /\ e_failed = "none"
    /\ e_fin = 0
    /\ sample = <<>>
    /\ e_switch = "none"
    /\ e_load = "none"
    /\ chg_last = -1
    /\ chg_prev = -1
    /\ smp_calls = 0
    /\ smp_time = -1
    /\ e_backend = "none"

\* HybridSTTEngine(force_engine = ...): the constructor returns the engine or
\* raises what the load of the initial backend raised.
New ==
    /\ e_call = "new"
    /\ \E l \in Construct(force_engine) :
          /\ EngineBecomes(l.e)
          /\ e_raised' = l.raised
    /\ e_call' = "init"
    /\ UNCHANGED <<e_ret, e_failed, e_fin, sample, e_switch, e_load, chg_last,
                   chg_prev, force_engine, smp_calls, smp_time, e_backend>>
    /\ UNCHANGED <<cpp_configured, now, rbVars, rbObs, capVars, capObs, powVars, legVars>>

\* The bound on resource_check_counter: a call is made while the counter is
\* below MaxCounter or the call will reset it.
CallAllowed ==
    \/ resource_check_counter < MaxCounter
    \/ now - last_check_time >= check_interval

\* The poll loop calls transcribe(chunk).
Transcribe ==
    /\ Constructed
    /\ CallAllowed
    /\ \E r \in TranscribeResults(Eng, now) :
          /\ EngineBecomes(r.e)
          /\ Observed("transcribe", r)
    /\ UNCHANGED <<cpp_configured, now, rbVars, rbObs, capVars, capObs, powVars, legVars>>

\* A caller (the tests) calls _check_resources_and_switch() directly.
Check ==
    /\ Constructed
    /\ CallAllowed
    /\ \E c \in CheckResourcesAndSwitch(Eng, now) :
          /\ EngineBecomes(c.e)
          /\ Observed("check", c @@ [ret |-> "none", failed |-> "none", backend |-> "none"])
    /\ UNCHANGED <<cpp_configured, now, rbVars, rbObs, capVars, capObs, powVars, legVars>>

\* close()
Close ==
    /\ Constructed
    /\ EngineBecomes(CloseEngine(Eng))
    /\ Observed("close", NoSwitch(Eng, <<>>) @@ [ret |-> "none", failed |-> "none", backend |-> "none"])
    /\ UNCHANGED <<cpp_configured, now, rbVars, rbObs, capVars, capObs, powVars, legVars>>

\* The poll loop calls final_result() when it is done.
FinalResult ==
    /\ Constructed
    /\ \E r \in FinalResultResults(Eng) :
          /\ e_ret' = r.ret
          /\ e_fin' = r.fin
          /\ e_failed' = r.failed
    /\ e_call' = "final_result"
    /\ e_raised' = FALSE
    /\ sample' = <<>>
    /\ e_switch' = "none"
    /\ e_load' = "none"
    /\ e_backend' = "none"
    /\ UNCHANGED <<chg_last, chg_prev, force_engine, smp_calls, smp_time>>
    /\ UNCHANGED <<engVars, rbVars, rbObs, capVars, capObs, powVars, legVars>>

\* A second passes.
Tick ==
    /\ now < MaxTime
    /\ now' = now + 1
    /\ UNCHANGED <<active_engine, vosk_model, vosk_recognizer, whisper_model,
                   whisper_cpp_ctx, last_check_time, last_switch_time,
                   resource_check_counter, cpp_configured>>
    /\ UNCHANGED <<engObs, rbVars, rbObs, capVars, capObs, powVars, legVars>>

\* A time of the past as it reads after the origin of the clock has been
\* moved one second on (times that far back all read 0; -1 stays "never").
Earlier(x) == IF x > 0 THEN x - 1 ELSE x

\* A second passes, for ever: the origin of the clock moves on with it, so
\* that now reads the same and every time of the past one second less (the
\* engine looks only at the differences now - last_check_time and
\* now - last_switch_time, and now - 0 is not below either of its intervals).
Elapse ==
    /\ last_check_time' = Earlier(last_check_time)
    /\ last_switch_time' = Earlier(last_switch_time)
    /\ chg_last' = Earlier(chg_last)
    /\ chg_prev' = Earlier(chg_prev)
    /\ smp_time' = Earlier(smp_time)
    /\ UNCHANGED <<active_engine, vosk_model, vosk_recognizer, whisper_model,
                   whisper_cpp_ctx, resource_check_counter, cpp_configured, now>>
    /\ UNCHANGED <<e_call, e_raised, e_ret, e_failed, e_fin, sample, e_switch,
                   e_load, force_engine, smp_calls, e_backend>>
    /\ UNCHANGED <<rbVars, rbObs, capVars, capObs, powVars, legVars>>

\* No sample (a check that took none), or one with cpu or memory above its
\* threshold.
HighSample(s) == IF s = <<>> THEN TRUE ELSE HighUsage(s[1], s[2])

\* The check routine, as every transcribe(chunk) of the poll loop runs it
\* first (what follows it in transcribe assigns none of the fields it reads),
\* on a machine that is busy whenever whisper is active: a sample taken then
\* has cpu or memory above its threshold.
CheckBusy ==
    /\ Constructed
    /\ CallAllowed
    /\ \E c \in CheckResourcesAndSwitch(Eng, now) :
          /\ active_engine = "whisper" => HighSample(c.sample)
          /\ EngineBecomes(c.e)
          /\ Observed("check", c @@ [ret |-> "none", failed |-> "none", backend |-> "none"])
    /\ UNCHANGED <<cpp_configured, now, rbVars, rbObs, capVars, capObs, powVars, legVars>>

\* The poll loop goes on calling while time goes on passing.
SwitchDownNext ==
    \/ CheckBusy
    \/ Elapse

EngineNext ==
    \/ Transcribe
    \/ Check
    \/ Close
    \/ FinalResult
    \/ Tick

\* The constructor, and then the calls of the caller that has the engine (the
\* clock stands still).
ConstructNext ==
    \/ New
    \/ Transcribe
    \/ FinalResult
    \/ Close

\* The check routine alone, called directly (as the tests do) while time passes.
SelectorNext ==
    \/ Check
    \/ Tick

(***************************************************************************)
(* PowerAwareScheduler                                                     *)
(***************************************************************************)
\* temp_threshold (default), in degrees Celsius.
temp_threshold == 85

\* get_cpu_temp(): 0.0 when no sensor can be read, a temperature at the
\* threshold, and one above it.
TempSamples == {0, temp_threshold, temp_threshold + 1}

\* PowerAwareScheduler.__init__ (the scheduler is given the engine, and the
\* same check_interval as the engine: both default to 5.0).
SchedulerInit ==
    /\ sched_last_check_time = 0
    /\ is_throttled = FALSE
    /\ t_raised = FALSE

\* _switch_to_low_power_mode on the engine e: [e |-> the engine afterwards,
\* raised |-> ...]. HybridSTTEngine has no attribute unload_whisper (its
\* method is _unload_whisper), so the call on line 51 raises AttributeError
\* and the assignment `self.engine.active_engine = "vosk"` is not reached.
SwitchToLowPowerMode(e) == [e |-> e, raised |-> TRUE]

\* throttle_check() at time t with the temperature temp: [e |-> the engine
\* afterwards, last |-> self.last_check_time, throttled |-> self.is_throttled,
\* raised |-> ...].
ThrottleCheckResult(e, t, temp) ==
    IF t - sched_last_check_time < check_interval
    THEN [e |-> e, last |-> sched_last_check_time, throttled |-> is_throttled,
          raised |-> FALSE]
    ELSE IF temp > temp_threshold
    THEN IF ~is_throttled
         THEN [e |-> SwitchToLowPowerMode(e).e, last |-> t, throttled |-> TRUE,
               raised |-> SwitchToLowPowerMode(e).raised]
         ELSE [e |-> e, last |-> t, throttled |-> TRUE, raised |-> FALSE]
    ELSE [e |-> e, last |-> t, throttled |-> FALSE, raised |-> FALSE]

\* A caller calls throttle_check() of the scheduler of the engine.
ThrottleCheck ==
    /\ Constructed
    /\ \E temp \in TempSamples :
          LET r == ThrottleCheckResult(Eng, now, temp)
          IN  /\ EngineBecomes(r.e)
              /\ sched_last_check_time' = r.last
              /\ is_throttled' = r.throttled
              /\ t_raised' = r.raised
    /\ UNCHANGED <<cpp_configured, now, engObs, legVars>>
    /\ UNCHANGED <<rbVars, rbObs, capVars, capObs>>

\* The engine called by the poll loop, and its scheduler (the clock stands
\* still).
PowerNext ==
    \/ Transcribe
    \/ Close
    \/ ThrottleCheck

(***************************************************************************)
(* HybridSTTEngine: properties                                             *)
(***************************************************************************)
\* C4: two consecutive changes of active_engine are at least cooldown_time
\* apart, for every resource feed and every sequence of calls.
C4_Cooldown ==
    chg_prev >= 0 => chg_last - chg_prev >= cooldown_time

\* C5: active_engine goes from "vosk" to "whisper" only in a call that sampled
\* cpu strictly below cpu_threshold - 15 and memory strictly below
\* memory_threshold - 15 (so never on a sample at threshold - 15 or at
\* threshold - 15/2 on either resource).
C5_Hysteresis ==
    [][(active_engine = "vosk" /\ active_engine' = "whisper") =>
           /\ sample' # <<>>
           /\ sample'[1] < Pct(cpu_threshold - Margin)
           /\ sample'[2] < Pct(memory_threshold - Margin)]_vars

\* C5 witness: a check of the running engine switched vosk -> whisper on a
\* sample half a percent below both margins.
C5_Witness ==
    /\ e_call \in {"transcribe", "check"}
    /\ e_switch = "to_whisper"
    /\ active_engine = "whisper"
    /\ sample = <<Pct(cpu_threshold - Margin) - 1, Pct(memory_threshold - Margin) - 1>>

\* C6: when the load of whisper fails in a vosk -> whisper transition, the
\* active backend is vosk once the check routine has finished.
C6_HeavyLoadFailureKeepsLight ==
    (e_switch = "to_whisper" /\ e_load = "failed") => active_engine = "vosk"

\* C7: a transcribe call during which the load of a switch fails returns a
\* text to its caller and does not raise.
C7_LoadFailureNotFatal ==
    (e_call = "transcribe" /\ e_load = "failed") =>
        (~e_raised /\ e_ret \in {"text", ""})

\* The step is a call of the engine (time stands still during a call).
CallStep(call) == e_call' = call /\ now' = now

\* The fields of the engine that a call can change.
engFields ==
    <<active_engine, vosk_model, vosk_recognizer, whisper_model, whisper_cpp_ctx,
      last_check_time, last_switch_time, resource_check_counter>>

\* A backend call that raises leaves the engine as one that returns a text
\* does (the handler of the exception assigns nothing).
FailureLeavesNoTrace ==
    \A d \in Delegate(Eng) :
        d.failed = "backend" =>
            \E d2 \in Delegate(Eng) :
                d2.failed = "none" /\ ~d2.raised /\ d2.ret = "text" /\ d2.e = d.e

\* C13: when the active backend raises inside transcribe, the call returns ""
\* and does not raise; unless the call's own check switched, active_engine
\* and last_switch_time are what they were; and the failure leaves nothing
\* behind in the engine, so that the next transcribe call is processed as
\* after a call whose backend returned a text.
C13_TranscriptionFailureContained ==
    /\ [][(CallStep("transcribe") /\ e_failed' # "none") =>
              /\ ~e_raised'
              /\ e_ret' = ""
              /\ e_switch' = "none" =>
                     (active_engine' = active_engine
                          /\ last_switch_time' = last_switch_time)]_vars
    /\ []FailureLeavesNoTrace

\* C13 witness: the backend of a loaded engine raised in a transcribe call
\* that did not switch, and the call returned "".
C13_Witness ==
    /\ e_call = "transcribe"
    /\ e_failed = "backend"
    /\ ~e_raised
    /\ e_ret = ""
    /\ e_switch = "none"
    /\ sample # <<>>
    /\ active_engine = "whisper" /\ whisper_model

\* No backend resource is loaded.
NothingLoaded ==
    ~vosk_model /\ ~vosk_recognizer /\ ~whisper_model /\ ~whisper_cpp_ctx

\* C18: close() does not raise and leaves no backend resource loaded,
\* whichever backend was active or loaded; a close() after a close(), or of
\* an engine with nothing loaded, changes nothing in the engine.
C18_CloseUnloadsAll ==
    [][CallStep("close") =>
           /\ ~e_raised'
           /\ NothingLoaded'
           /\ (e_call = "close" \/ NothingLoaded) => UNCHANGED engFields]_vars

\* C18 witness: close() found the engine on whisper, to which it had
\* switched from vosk, both backends loaded before.
C18_Witness ==
    /\ e_call = "close"
    /\ NothingLoaded
    /\ active_engine = "whisper"
    /\ chg_last >= 0
    /\ last_switch_time = chg_last

\* C19: final_result() never raises; with vosk active and a recognizer loaded
\* it invokes FinalResult once and returns its text, or "" when that raises;
\* with whisper active or no recognizer it returns "" without invoking it.
C19_FinalResult ==
    e_call = "final_result" =>
        /\ ~e_raised
        /\ IF active_engine = "vosk" /\ vosk_recognizer
           THEN /\ e_fin = 1
                /\ e_ret = (IF e_failed = "backend" THEN "" ELSE "text")
           ELSE /\ e_fin = 0
                /\ e_ret = ""

\* C19 witness: final_result() of an engine that switched back to vosk
\* returned the recognizer's text.
C19_Witness ==
    /\ e_call = "final_result"
    /\ active_engine = "vosk"
    /\ vosk_recognizer
    /\ chg_last >= 0
    /\ e_fin = 1
    /\ e_ret = "text"

\* C21: a check of an engine on whisper whose throttle and cooldown have
\* elapsed and whose sample has cpu > cpu_threshold or memory >
\* memory_threshold makes vosk active, loads vosk, unloads whisper (model and
\* whisper.cpp context both absent) and sets last_switch_time to the time of
\* the check.
C21_HeavyToLight ==
    (e_call = "check" /\ e_switch = "to_vosk") =>
        /\ active_engine = "vosk"
        /\ vosk_model /\ vosk_recognizer
        /\ ~whisper_model /\ ~whisper_cpp_ctx
        /\ last_switch_time = last_check_time

\* The backend force_engine asks for: itself when it is "vosk" or "whisper",
\* "vosk" when it is absent or anything else.
Requested == IF force_engine \in {"vosk", "whisper"} THEN force_engine ELSE "vosk"

\* C22: a constructor that returned leaves the requested backend active,
\* that backend loaded and the other backend not loaded.
C22_InitialState ==
    (e_call = "init" /\ ~e_raised) =>
        /\ active_engine = Requested
        /\ active_engine = "vosk" =>
               /\ vosk_model /\ vosk_recognizer
               /\ ~whisper_model /\ ~whisper_cpp_ctx
        /\ active_engine = "whisper" =>
               /\ whisper_model \/ whisper_cpp_ctx
               /\ ~vosk_model /\ ~vosk_recognizer

\* C22 witness: the constructor was called with force_engine = "whisper",
\* whisper.cpp configured, and returned with the whisper.cpp context loaded.
C22_Witness ==
    /\ e_call = "init" /\ ~e_raised
    /\ force_engine = "whisper"
    /\ cpp_configured
    /\ active_engine = "whisper"
    /\ whisper_cpp_ctx /\ ~whisper_model /\ ~vosk_recognizer

\* C23: active_engine is "vosk" or "whisper" in every state, after any
\* calls of transcribe, the check routine, final_result and close and any
\* resource samples.
C23_ClosedBackendIdentity == active_engine \in {"vosk", "whisper"}

\* C23 witness: final_result() was called on an engine that had changed its
\* backend twice.
C23_Witness ==
    /\ e_call = "final_result"
    /\ chg_prev >= 0
    /\ active_engine \in {"vosk", "whisper"}

\* C26: whenever a transcribe or check call has returned or raised, the
\* whisper model or the whisper.cpp context is loaded only if whisper is
\* the active backend.
C26_LazyLoadPromptUnload ==
    e_call \in {"transcribe", "check"} =>
        ((whisper_model \/ whisper_cpp_ctx) => active_engine = "whisper")

\* C27: every step that changes active_engine sets last_switch_time to the
\* time of the check that made the change, also when the load raised.
C27_SwitchTimestampRecorded ==
    [][active_engine' # active_engine => last_switch_time' = now]_vars

\* The step is a call that runs the check routine: a direct call of it or a
\* transcribe call.
CheckStep == CallStep("check") \/ CallStep("transcribe")

InBand(s) ==
    /\ Pct(cpu_threshold - Margin) <= s[1] /\ s[1] <= Pct(cpu_threshold)
    /\ Pct(memory_threshold - Margin) <= s[2] /\ s[2] <= Pct(memory_threshold)

\* C29: active_engine changes only in a call that sampled usage outside the
\* hysteresis band; so a feed of samples inside the band never changes the
\* active backend, whichever it is and however many checks are evaluated.
C29_NoOscillationInBand ==
    [][active_engine' # active_engine =>
           (sample' # <<>> /\ ~InBand(sample'))]_vars

\* C29 witness: an engine that had switched to whisper evaluated a sample
\* with cpu exactly at cpu_threshold and memory exactly at
\* memory_threshold - 15 and stayed on whisper.
C29_Witness ==
    /\ e_call = "check"
    /\ sample = <<Pct(cpu_threshold), Pct(memory_threshold - Margin)>>
    /\ e_switch = "none"
    /\ active_engine = "whisper"
    /\ chg_last >= 0

\* The check about to run will be skipped: its throttle has not elapsed (it
\* is not yet the 10th call, or check_interval has not passed) or less than
\* cooldown_time has passed since the last switch.
Skipped ==
    \/ resource_check_counter + 1 < CheckEvery
    \/ now - last_check_time < check_interval
    \/ now - last_switch_time < cooldown_time

\* C30: a skipped check samples nothing and leaves active_engine,
\* last_switch_time and the four backend resources as they were.
C30_SkippedCheckFrame ==
    [][(CallStep("check") /\ Skipped) =>
           /\ sample' = <<>>
           /\ UNCHANGED <<active_engine, last_switch_time, vosk_model,
                          vosk_recognizer, whisper_model, whisper_cpp_ctx>>]_vars

\* C30 witness: a check whose throttle had elapsed was skipped because the
\* last switch was less than cooldown_time ago.
C30_Witness ==
    /\ e_call = "check"
    /\ sample = <<>>
    /\ resource_check_counter = 0 /\ last_check_time = now
    /\ last_switch_time > 0
    /\ now - last_switch_time < cooldown_time

\* The backend b is loaded.
Loaded(b) ==
    IF b = "vosk" THEN vosk_recognizer ELSE (whisper_cpp_ctx \/ whisper_model)

C37_SwitchDownLiveness == (active_engine = "whisper") ~> (active_engine = "vosk")

\* C37 witness: vosk has become active by a switch from whisper, which had
\* itself been switched to at least cooldown_time before.
C37_Witness ==
    /\ e_switch = "to_vosk"
    /\ active_engine = "vosk"
    /\ chg_prev > 0
    /\ chg_last - chg_prev >= cooldown_time
    /\ HighUsage(sample[1], sample[2])

\* What is loaded: the load status of the two backends.
LoadStatus == <<vosk_model, vosk_recognizer, whisper_model, whisper_cpp_ctx>>

\* C34: the active backend and the last-switch timestamp change only in a
\* switch made by the check routine, and what is loaded changes only in such
\* a switch or in close(); no step of another component, throttle_check of
\* the PowerAwareScheduler in particular, changes any of them.
C34_ExclusiveOwnership ==
    [][/\ (active_engine' # active_engine \/ last_switch_time' # last_switch_time)
           => /\ e_call' \in {"transcribe", "check"}
              /\ e_switch' # "none"
              /\ powVars' = powVars
       /\ LoadStatus' # LoadStatus
           => /\ powVars' = powVars
              /\ \/ e_call' \in {"transcribe", "check"} /\ e_switch' # "none"
                 \/ e_call' = "close"]_vars

(***************************************************************************)
(* The specifications                                                      *)
(***************************************************************************)
\* No engine has been constructed: the state of the engine's variables in the
\* specifications of the other components.
NoEngine ==
    /\ active_engine = "vosk"
    /\ vosk_model = FALSE
    /\ vosk_recognizer = FALSE
    /\ whisper_model = FALSE
    /\ whisper_cpp_ctx = FALSE
    /\ last_check_time = 0
    /\ last_switch_time = 0
    /\ resource_check_counter = 0
    /\ cpp_configured = FALSE
    /\ now = StartTime
    /\ e_call = "init"
    /\ e_raised = FALSE
    /\ e_ret = "none"
    /\ e_failed = "none"
    /\ e_fin = 0
    /\ sample = <<>>
    /\ e_switch = "none"
    /\ e_load = "none"
    /\ chg_last = -1
    /\ chg_prev = -1
    /\ force_engine = "none"
    /\ smp_calls = 0
    /\ smp_time = -1
    /\ e_backend = "none"

\* No capturer is in use: the state of the capturer's variables in the
\* specifications of the other components.
NoCapturer == CapturerInit /\ chunk = 1

\* A RingBuffer alone, written and read by its callers.
InitBuffer == BufferInit /\ NoCapturer /\ NoEngine /\ SchedulerInit /\ LegacyInit
SpecBuffer == InitBuffer /\ [][BufferNext]_vars

\* A RingBuffer shared by one producer thread and one consumer thread, each
\* step of which is one iteration of a loop or the way into or out of
\* `with self.lock`.
InitConcurrent == BufferInit /\ NoCapturer /\ NoEngine /\ SchedulerInit /\ LegacyInit
SpecConcurrent == InitConcurrent /\ [][ConcurrentNext]_vars

\* The buffer of the end-to-end scenario and its two writes.
InitScenario == ScenarioInit /\ NoCapturer /\ NoEngine /\ SchedulerInit /\ LegacyInit
SpecScenario == InitScenario /\ [][ScenarioNext]_vars

\* An AudioCapturer, its capture threads and the caller of start() and stop().
InitCapturer == BufferInit /\ CapturerInit /\ NoEngine /\ SchedulerInit /\ LegacyInit
SpecCapturer == InitCapturer /\ [][CapturerNext]_vars

\* The capturer started and stopped by one caller, with a join that returns:
\* when the thread has exited, or when the two seconds of its timeout have
\* passed.
InitStop == BufferInit /\ CapturerInit /\ NoEngine /\ SchedulerInit /\ LegacyInit
SpecStop ==
    /\ InitStop
    /\ [][StopNext]_vars
    /\ WF_vars(StopJoined)
    /\ WF_vars(StopJoinTimeout)

\* The producers and the consumer of a capturer that is started and not
\* stopped: the capture threads write frames while the poll loop calls
\* get_chunk. A thread that holds the lock of the buffer runs on: the body of
\* write and of read is a bounded loop without a blocking call.
InitPipeline == BufferInit /\ CapturerInit /\ NoEngine /\ SchedulerInit /\ LegacyInit
SpecPipeline ==
    /\ InitPipeline
    /\ [][PipelineNext]_vars
    /\ WF_vars(\E t \in Ids : ThreadWrite(t))
    /\ WF_vars(GetChunk)

\* A HybridSTTEngine alone, called by the poll loop while time passes.
InitEngine == BufferInit /\ NoCapturer /\ EngineInit /\ SchedulerInit /\ LegacyInit
SpecEngine == InitEngine /\ [][EngineNext]_vars

\* The construction of a HybridSTTEngine and its first calls.
InitConstruct == BufferInit /\ NoCapturer /\ Unconstructed /\ SchedulerInit /\ LegacyInit
SpecConstruct == InitConstruct /\ [][ConstructNext]_vars

\* The queue-based AudioCapture, its capture thread and the thread that calls
\* its methods.
InitLegacy == BufferInit /\ NoCapturer /\ NoEngine /\ SchedulerInit /\ LegacyInit
SpecLegacy == InitLegacy /\ [][LegacyNext]_vars

\* A HybridSTTEngine called by the poll loop, and the PowerAwareScheduler that
\* was given that engine.
InitPower == BufferInit /\ NoCapturer /\ EngineInit /\ SchedulerInit /\ LegacyInit
SpecPower == InitPower /\ [][PowerNext]_vars

\* A HybridSTTEngine in a poll loop that does not end: transcribe is called
\* again and again, and time passes.
InitSwitchDown == BufferInit /\ NoCapturer /\ EngineInit /\ SchedulerInit /\ LegacyInit
SpecSwitchDown ==
    /\ InitSwitchDown
    /\ [][SwitchDownNext]_vars
    /\ WF_vars(CheckBusy)
    /\ WF_vars(Elapse)

\* A HybridSTTEngine whose check routine is called directly while time passes.
InitSelector == BufferInit /\ NoCapturer /\ EngineInit /\ SchedulerInit /\ LegacyInit
SpecSelector == InitSelector /\ [][SelectorNext]_vars

====
